---- MODULE Spec2Model ----
(***************************************************************************)
(* Model of the OCR extraction engine of the WorkPass Cert Manager worker  *)
(* (worker/src/routes/certifications.js, parseOCRText and processOCR) and  *)
(* of the multi-image merge loop of the browser application (runOCR).      *)
(*                                                                         *)
(* Text is kept as TLA+ strings; a character is a string of length one.    *)
(* Regular expressions of the source are written as sequences of atoms and *)
(* matched by a backtracking matcher with JavaScript's priority order      *)
(* (leftmost start, greedy or lazy quantifiers, ordered alternation).      *)
(***************************************************************************)
EXTENDS Integers, Sequences, FiniteSets, TLC

(***************************************************************************)
(* Characters and JavaScript string primitives                             *)
(***************************************************************************)
NULL == "<null>"

Inf == 999

At(s, i) == SubSeq(s, i, i)

Digit == {"0", "1", "2", "3", "4", "5", "6", "7", "8", "9"}

AZ == {"A", "B", "C", "D", "E", "F", "G", "H", "I", "J", "K", "L", "M",
       "N", "O", "P", "Q", "R", "S", "T", "U", "V", "W", "X", "Y", "Z"}

az == {"a", "b", "c", "d", "e", "f", "g", "h", "i", "j", "k", "l", "m",
       "n", "o", "p", "q", "r", "s", "t", "u", "v", "w", "x", "y", "z"}

WS == {" ", "\n", "\t"}

WordChar == AZ \cup az \cup Digit \cup {"_"}

UpperOf ==
    ("a" :> "A") @@ ("b" :> "B") @@ ("c" :> "C") @@ ("d" :> "D") @@
    ("e" :> "E") @@ ("f" :> "F") @@ ("g" :> "G") @@ ("h" :> "H") @@
    ("i" :> "I") @@ ("j" :> "J") @@ ("k" :> "K") @@ ("l" :> "L") @@
    ("m" :> "M") @@ ("n" :> "N") @@ ("o" :> "O") @@ ("p" :> "P") @@
    ("q" :> "Q") @@ ("r" :> "R") @@ ("s" :> "S") @@ ("t" :> "T") @@
    ("u" :> "U") @@ ("v" :> "V") @@ ("w" :> "W") @@ ("x" :> "X") @@
    ("y" :> "Y") @@ ("z" :> "Z")

UpperChar(c) == IF c \in az THEN UpperOf[c] ELSE c

RECURSIVE toUpperCase(_)
toUpperCase(s) ==
    IF Len(s) = 0 THEN ""
    ELSE IF Len(s) = 1 THEN UpperChar(s)
    ELSE LET h == Len(s) \div 2
         IN  toUpperCase(SubSeq(s, 1, h)) \o toUpperCase(SubSeq(s, h + 1, Len(s)))

RECURSIVE trimStart(_)
trimStart(s) ==
    IF s # "" /\ At(s, 1) \in WS THEN trimStart(SubSeq(s, 2, Len(s))) ELSE s

RECURSIVE trimEnd(_)
trimEnd(s) ==
    IF s # "" /\ At(s, Len(s)) \in WS THEN trimEnd(SubSeq(s, 1, Len(s) - 1))
    ELSE s

trim(s) == trimEnd(trimStart(s))

\* s.split('\n'): the pieces between newline characters, empty pieces kept
split(s) ==
    LET breaks == {p \in 1..Len(s) : At(s, p) = "\n"}
        \* position of the k-th newline; 0 before the first piece, Len(s)+1 after the last
        break(k) == IF k = 0 THEN 0
                    ELSE IF k > Cardinality(breaks) THEN Len(s) + 1
                    ELSE CHOOSE p \in breaks : Cardinality({q \in breaks : q < p}) = k - 1
    IN  [k \in 1..(Cardinality(breaks) + 1) |-> SubSeq(s, break(k - 1) + 1, break(k) - 1)]

\* the lines trimmed, the empty ones kept
normLinesUnfiltered(s) ==
    [k \in 1..Len(split(s)) |-> trim(split(s)[k])]

\* rawText.split('\n').map(l => l.trim()).filter(Boolean)
normLines(s) ==
    LET trimmed == [k \in 1..Len(split(s)) |-> trim(split(s)[k])]
    IN  SelectSeq(trimmed, LAMBDA l : l # "")

\* text.includes(w)
includes(s, w) ==
    \E i \in 1..(Len(s) - Len(w) + 1) : SubSeq(s, i, i + Len(w) - 1) = w

\* str.padStart(2, '0') for a string of one or two digits
padStart2(s) == IF Len(s) < 2 THEN "0" \o s ELSE s

\* str.replace(/\s+/g, '')
RECURSIVE stripWS(_)
stripWS(s) ==
    IF Len(s) = 0 THEN ""
    ELSE IF Len(s) = 1 THEN (IF s \in WS THEN "" ELSE s)
    ELSE LET h == Len(s) \div 2
         IN  stripWS(SubSeq(s, 1, h)) \o stripWS(SubSeq(s, h + 1, Len(s)))

\* JavaScript truthiness of a field value (null and '' are falsy)
Truthy(v) == v # NULL /\ v # ""

(***************************************************************************)
(* Regular expressions: atoms and the matcher                              *)
(***************************************************************************)
L(w) == [t |-> "lit", w |-> w]
C(cs, lo, hi) == [t |-> "cls", cs |-> cs, neg |-> FALSE, lo |-> lo, hi |-> hi, lazy |-> FALSE]
CLazy(cs, lo, hi) == [t |-> "cls", cs |-> cs, neg |-> FALSE, lo |-> lo, hi |-> hi, lazy |-> TRUE]
NC(cs, lo, hi) == [t |-> "cls", cs |-> cs, neg |-> TRUE, lo |-> lo, hi |-> hi, lazy |-> FALSE]
NCLazy(cs, lo, hi) == [t |-> "cls", cs |-> cs, neg |-> TRUE, lo |-> lo, hi |-> hi, lazy |-> TRUE]
Alt(alts) == [t |-> "alt", alts |-> alts, opt |-> FALSE]
Opt(alts) == [t |-> "alt", alts |-> alts, opt |-> TRUE]
Open(n) == [t |-> "open", n |-> n]
Close(n) == [t |-> "close", n |-> n]
Bol == [t |-> "bol"]
Eol == [t |-> "eol"]
Wb == [t |-> "wb"]

S0 == C(WS, 0, Inf)
S1 == C(WS, 1, Inf)

NoMatch == [ok |-> FALSE]

NoCaps == <<<<0, 0>>, <<0, 0>>, <<0, 0>>>>

InClass(a, c) == IF a.neg THEN c \notin a.cs ELSE c \in a.cs

\* number of consecutive characters of class a from position i, at most a.hi
Run(a, s, i, n) ==
    LET limit == IF a.hi < Len(s) - i + 1 THEN a.hi ELSE Len(s) - i + 1
    IN  IF limit <= n THEN n
        ELSE CHOOSE m \in n..limit :
                /\ m = limit \/ ~InClass(a, At(s, i + m))
                /\ \A x \in n..(m - 1) : InClass(a, At(s, i + x))

IsWordAt(s, i) == i >= 1 /\ i <= Len(s) /\ At(s, i) \in WordChar

\* const v = value; body(v): the value is computed once
Bind(value, body(_)) == CHOOSE out \in {body(v) : v \in {value}} : TRUE

RECURSIVE M(_, _, _, _, _)
RECURSIVE TryCount(_, _, _, _, _, _, _, _)
RECURSIVE TryAlts(_, _, _, _, _, _)

\* re[k] exists and is an atom of kind t
Is(re, k, t) == k <= Len(re) /\ re[k].t = t

\* the literal a.w stands at position i of s
LitAt(a, s, i) == i + Len(a.w) - 1 <= Len(s) /\ SubSeq(s, i, i + Len(a.w) - 1) = a.w

\* first match, in priority order, of re[k..] at position i of s
M(re, k, s, i, caps) ==
    CASE k > Len(re) -> [ok |-> TRUE, e |-> i, c |-> caps]
      [] Is(re, k, "lit") /\ LitAt(re[k], s, i) ->
            M(re, k + 1, s, i + Len(re[k].w), caps)
      [] Is(re, k, "cls") /\ Run(re[k], s, i, 0) >= re[k].lo /\ re[k].lazy ->
            TryCount(re, k, s, i, caps, re[k].lo, Run(re[k], s, i, 0), 1)
      [] Is(re, k, "cls") /\ Run(re[k], s, i, 0) >= re[k].lo /\ ~re[k].lazy ->
            TryCount(re, k, s, i, caps, Run(re[k], s, i, 0), re[k].lo, -1)
      [] Is(re, k, "alt") -> TryAlts(re, k, s, i, caps, 1)
      [] Is(re, k, "open") ->
            M(re, k + 1, s, i, [caps EXCEPT ![re[k].n] = <<i, i>>])
      [] Is(re, k, "close") ->
            M(re, k + 1, s, i, [caps EXCEPT ![re[k].n] = <<caps[re[k].n][1], i>>])
      [] Is(re, k, "bol") /\ i = 1 -> M(re, k + 1, s, i, caps)
      [] Is(re, k, "eol") /\ i = Len(s) + 1 -> M(re, k + 1, s, i, caps)
      [] Is(re, k, "wb") /\ IsWordAt(s, i - 1) # IsWordAt(s, i) ->
            M(re, k + 1, s, i, caps)
      [] OTHER -> NoMatch

\* quantified class re[k]: try n characters, then n+step ... up to last;
\* the counts are tried in that order, the first half of them before the second
TryCount(re, k, s, i, caps, n, last, step) ==
    CASE n = last -> M(re, k + 1, s, i + n, caps)
      [] OTHER ->
            Bind(TryCount(re, k, s, i, caps, n, n + step * (((last - n) * step) \div 2), step),
                 LAMBDA r : IF r.ok THEN r
                            ELSE TryCount(re, k, s, i, caps,
                                          n + step * (((last - n) * step) \div 2) + step,
                                          last, step))

\* group re[k]: alternatives in order, then (optional group) the empty match
TryAlts(re, k, s, i, caps, j) ==
    CASE j > Len(re[k].alts) /\ re[k].opt -> M(re, k + 1, s, i, caps)
      [] j > Len(re[k].alts) -> NoMatch
      [] OTHER ->
            Bind(M(re[k].alts[j] \o SubSeq(re, k + 1, Len(re)), 1, s, i, caps),
                 LAMBDA r : IF r.ok THEN r ELSE TryAlts(re, k, s, i, caps, j + 1))

\* the match of re at position b of s, with its start
MatchAt(re, s, b) ==
    Bind(M(re, 1, s, b, NoCaps),
         LAMBDA r : IF r.ok THEN [ok |-> TRUE, b |-> b, e |-> r.e, c |-> r.c]
                    ELSE NoMatch)

\* leftmost match that starts in first..last
RECURSIVE SearchRange(_, _, _, _)
SearchRange(re, s, first, last) ==
    CASE first > last -> NoMatch
      [] first = last -> MatchAt(re, s, first)
      [] OTHER ->
            Bind(SearchRange(re, s, first, (first + last) \div 2),
                 LAMBDA r : IF r.ok THEN r
                            ELSE SearchRange(re, s, (first + last) \div 2 + 1, last))

\* s.match(re) without the g flag: leftmost match at or after position from
SearchFrom(re, s, from) == SearchRange(re, s, from, Len(s) + 1)

Search(re, s) == SearchFrom(re, s, 1)

\* match[n] of a successful match m on s
Cap(s, m, n) == SubSeq(s, m.c[n][1], m.c[n][2] - 1)

\* match[0]
Whole(s, m) == SubSeq(s, m.b, m.e - 1)

(***************************************************************************)
(* Date helpers: formatDate, parseTextMonthDate, Array.prototype.sort      *)
(***************************************************************************)
\* [\\\/\\.\\-] : backslash, slash, dot, hyphen
SepB == {"\\", "/", ".", "-"}

\* [\/.\-] : slash, dot, hyphen
Sep == {"/", ".", "-"}

\* \d{1,2}[\\\/\\.\\-]\d{1,2}[\\\/\\.\\-]\d{4}
NumDateB == <<C(Digit, 1, 2), C(SepB, 1, 1), C(Digit, 1, 2), C(SepB, 1, 1), C(Digit, 4, 4)>>

\* \d{1,2}[\/.\-]\d{1,2}[\/.\-]\d{4}
NumDate == <<C(Digit, 1, 2), C(Sep, 1, 1), C(Digit, 1, 2), C(Sep, 1, 1), C(Digit, 4, 4)>>

\* (\d{1,2})[\\\/\\.\\-](\d{1,2})[\\\/\\.\\-](\d{4})
RE_date3 ==
    <<Open(1), C(Digit, 1, 2), Close(1), C(SepB, 1, 1),
      Open(2), C(Digit, 1, 2), Close(2), C(SepB, 1, 1),
      Open(3), C(Digit, 4, 4), Close(3)>>

\* `${year}-${month}-${day}` of a match of RE_date3
IsoOfMatch(s, m) ==
    Cap(s, m, 3) \o "-" \o padStart2(Cap(s, m, 2)) \o "-" \o padStart2(Cap(s, m, 1))

formatDate(dateStr) ==
    LET match == Search(RE_date3, dateStr)
    IN  IF ~match.ok THEN NULL ELSE IsoOfMatch(dateStr, match)

months ==
    ("JAN" :> "01") @@ ("JANUARY" :> "01") @@ ("FEB" :> "02") @@ ("FEBRUARY" :> "02") @@
    ("MAR" :> "03") @@ ("MARCH" :> "03") @@ ("APR" :> "04") @@ ("APRIL" :> "04") @@
    ("MAY" :> "05") @@ ("JUN" :> "06") @@ ("JUNE" :> "06") @@ ("JUL" :> "07") @@
    ("JULY" :> "07") @@ ("AUG" :> "08") @@ ("AUGUST" :> "08") @@ ("SEP" :> "09") @@
    ("SEPTEMBER" :> "09") @@ ("OCT" :> "10") @@ ("OCTOBER" :> "10") @@ ("NOV" :> "11") @@
    ("NOVEMBER" :> "11") @@ ("DEC" :> "12") @@ ("DECEMBER" :> "12")

\* (\d{1,2})[\s\-,]+([A-Z]+)[\s\-,]+(\d{4})  with the i flag
RE_textMonth ==
    <<Open(1), C(Digit, 1, 2), Close(1), C(WS \cup {"-", ","}, 1, Inf),
      Open(2), C(AZ, 1, Inf), Close(2), C(WS \cup {"-", ","}, 1, Inf),
      Open(3), C(Digit, 4, 4), Close(3)>>

\* parseTextMonthDate with the day taken as written
parseTextMonthDateUnpadded(str) ==
    IF ~Truthy(str) THEN NULL
    ELSE LET u == toUpperCase(str)
             match == Search(RE_textMonth, u)
         IN  IF ~match.ok THEN NULL
             ELSE LET monthName == Cap(u, match, 2)
                  IN  IF monthName \notin DOMAIN months THEN NULL
                      ELSE Cap(u, match, 3) \o "-" \o months[monthName] \o "-"
                               \o Cap(u, match, 1)

parseTextMonthDate(str) ==
    IF ~Truthy(str) THEN NULL
    ELSE LET u == toUpperCase(str)
             match == Search(RE_textMonth, u)
         IN  IF ~match.ok THEN NULL
             ELSE LET monthName == Cap(u, match, 2)
                  IN  IF monthName \notin DOMAIN months THEN NULL
                      ELSE Cap(u, match, 3) \o "-" \o months[monthName] \o "-"
                               \o padStart2(Cap(u, match, 1))

\* UTF-16 code units of the characters that occur in canonical dates
CharCode ==
    ("-" :> 45) @@ ("0" :> 48) @@ ("1" :> 49) @@ ("2" :> 50) @@ ("3" :> 51) @@
    ("4" :> 52) @@ ("5" :> 53) @@ ("6" :> 54) @@ ("7" :> 55) @@ ("8" :> 56) @@
    ("9" :> 57)

\* a < b in the order of Array.prototype.sort without a comparator
RECURSIVE StrLess(_, _)
StrLess(a, b) ==
    IF b = "" THEN FALSE
    ELSE IF a = "" THEN TRUE
    ELSE IF At(a, 1) = At(b, 1)
         THEN StrLess(SubSeq(a, 2, Len(a)), SubSeq(b, 2, Len(b)))
         ELSE CharCode[At(a, 1)] < CharCode[At(b, 1)]

RECURSIVE Insert(_, _)
Insert(x, sorted) ==
    IF sorted = <<>> THEN <<x>>
    ELSE IF StrLess(x, Head(sorted)) THEN <<x>> \o sorted
         ELSE <<Head(sorted)>> \o Insert(x, Tail(sorted))

\* [...dates].sort()
RECURSIVE Sort(_)
Sort(seq) == IF seq = <<>> THEN <<>> ELSE Insert(seq[Len(seq)], Sort(SubSeq(seq, 1, Len(seq) - 1)))

(***************************************************************************)
(* parseOCRText: the result record and the document type flags             *)
(***************************************************************************)
EmptyResult ==
    [worker_name |-> NULL, fin_number |-> NULL, work_permit_no |-> NULL,
     date_of_birth |-> NULL, nationality |-> NULL, sex |-> NULL, race |-> NULL,
     address |-> NULL, country_of_birth |-> NULL, employer_name |-> NULL,
     course_title |-> NULL, course_provider |-> NULL, cert_serial_no |-> NULL,
     course_duration |-> NULL, issue_date |-> NULL, expiry_date |-> NULL]

FlagWorkPermit(text, documentType) ==
    \/ documentType = "work_permit"
    \/ includes(text, "WORK PERMIT")
    \/ includes(text, "EMPLOYMENT OF FOREIGN MANPOWER")

FlagIdentityCard(text, documentType) ==
    \/ documentType = "work_permit"
    \/ includes(text, "IDENTITY CARD")
    \/ includes(text, "REPUBLIC OF SINGAPORE")
    \/ includes(text, "NRIC NO")

CertKeywords ==
    {"COURSE DATE", "COURSE VENUE", "COURSE TITLE", "ISSUED DATE", "SERIAL NUMBER",
     "STUDENT NUMBER", "CERTIFICATE", "CERTIFICATION", "ACADEMY", "TRAINING", "VALIDITY"}

FlagCertification(text, documentType) ==
    \/ documentType = "certification"
    \/ \E w \in CertKeywords : includes(text, w)

(***************************************************************************)
(* 1. FIN / NRIC number                                                    *)
(***************************************************************************)
\* cleanName: collapse whitespace, drop characters outside [A-Z\s.'\-\/] (i flag), trim
\* the characters b..e of s with every run of whitespace replaced by one space
RECURSIVE collapseRange(_, _, _)
collapseRange(s, b, e) ==
    IF b > e THEN ""
    ELSE IF b = e
         THEN IF At(s, b) \notin WS THEN At(s, b)
              ELSE IF b = 1 \/ At(s, b - 1) \notin WS THEN " " ELSE ""
    ELSE LET h == (b + e) \div 2
         IN  collapseRange(s, b, h) \o collapseRange(s, h + 1, e)

collapseWS(s) == collapseRange(s, 1, Len(s))

NameChars == AZ \cup az \cup WS \cup {".", "'", "-", "/"}

RECURSIVE keepNameChars(_)
keepNameChars(s) ==
    IF Len(s) = 0 THEN ""
    ELSE IF Len(s) = 1 THEN (IF s \in NameChars THEN s ELSE "")
    ELSE LET h == Len(s) \div 2
         IN  keepNameChars(SubSeq(s, 1, h)) \o keepNameChars(SubSeq(s, h + 1, Len(s)))

cleanName(name) == trim(keepNameChars(collapseWS(name)))

\* name.split(/\s+/).filter(w => w.length > 0).length
wordCount(s, inWord) ==
    Cardinality({p \in 1..Len(s) :
                    /\ At(s, p) \notin WS
                    /\ IF p = 1 THEN ~inWord ELSE At(s, p - 1) \in WS})

isValidName(name) ==
    IF ~Truthy(name) \/ Len(name) < 3 THEN FALSE
    ELSE wordCount(name, FALSE) >= 2 \/ Len(name) >= 5

\* [STFGM]\d{7}[A-Z]   (also written [FGMST]\d{7}[A-Z])
FinToken == <<C({"S", "T", "F", "G", "M"}, 1, 1), C(Digit, 7, 7), C(AZ, 1, 1)>>

\* [ST]\d{7}[A-Z]
NricToken == <<C({"S", "T"}, 1, 1), C(Digit, 7, 7), C(AZ, 1, 1)>>

\* \s*[:\-]?\s*
ColonDash == <<S0, C({":", "-"}, 0, 1), S0>>

\* /IDENTITY\s*CARD\s*(?:NO\.?|NUMBER)\s*[:\-]?\s*([STFGM]\d{7}[A-Z])/
RE_icNo ==
    <<L("IDENTITY"), S0, L("CARD"), S0,
      Alt(<< <<L("NO"), C({"."}, 0, 1)>>, <<L("NUMBER")>> >>)>>
    \o ColonDash \o <<Open(1)>> \o FinToken \o <<Close(1)>>

\* /NRIC\s*(?:NO\.?|NUMBER)\s*[:\-]?\s*([ST]\d{7}[A-Z])/
RE_nricNo ==
    <<L("NRIC"), S0, Alt(<< <<L("NO"), C({"."}, 0, 1)>>, <<L("NUMBER")>> >>)>>
    \o ColonDash \o <<Open(1)>> \o NricToken \o <<Close(1)>>

\* /(?:FIN|ID\s*(?:NO|NUMBER)\.?)\s*[:\-]?\s*([FGMST]\d{7}[A-Z])/
RE_idLabel ==
    <<Alt(<< <<L("FIN")>>,
             <<L("ID"), S0, Alt(<< <<L("NO")>>, <<L("NUMBER")>> >>), C({"."}, 0, 1)>> >>)>>
    \o ColonDash \o <<Open(1)>> \o FinToken \o <<Close(1)>>

\* /([A-Z][A-Z\s.'\-]{4,})\s*\(([FGMST]\d{7}[A-Z])\)/
RE_nameId ==
    <<Open(1), C(AZ, 1, 1), C(AZ \cup WS \cup {".", "'", "-"}, 4, Inf), Close(1),
      S0, L("("), Open(2)>> \o FinToken \o <<Close(2), L(")")>>

\* /\b([FGMST]\d{7}[A-Z])\b/
RE_fin == <<Wb, Open(1)>> \o FinToken \o <<Close(1), Wb>>

\* the capture of the first match of re in text, or NULL
Capture1(re, text) ==
    LET m == Search(re, text) IN IF m.ok THEN Cap(text, m, 1) ELSE NULL

FinIcNo(text, result) ==
    LET icNoMatch == Search(RE_icNo, text)
    IN  IF icNoMatch.ok THEN [result EXCEPT !.fin_number = Cap(text, icNoMatch, 1)]
        ELSE result

\* fault: the NRIC NO tier runs although an earlier tier already matched
FinNricNoUnguarded(text, result) ==
    LET nricNoMatch == Search(RE_nricNo, text)
    IN  IF nricNoMatch.ok
        THEN [result EXCEPT !.fin_number = Cap(text, nricNoMatch, 1)]
        ELSE result

FinNricNo(text, result) ==
    IF Truthy(result.fin_number) THEN result
    ELSE LET nricNoMatch == Search(RE_nricNo, text)
         IN  IF nricNoMatch.ok
             THEN [result EXCEPT !.fin_number = Cap(text, nricNoMatch, 1)]
             ELSE result

\* fault: the whole match (label included) is stored, not the captured token
FinIdLabelWholeMatch(text, result) ==
    IF Truthy(result.fin_number) THEN result
    ELSE LET idLabelMatch == Search(RE_idLabel, text)
         IN  IF idLabelMatch.ok
             THEN [result EXCEPT !.fin_number = Whole(text, idLabelMatch)]
             ELSE result

FinIdLabel(text, result) ==
    IF Truthy(result.fin_number) THEN result
    ELSE LET idLabelMatch == Search(RE_idLabel, text)
         IN  IF idLabelMatch.ok
             THEN [result EXCEPT !.fin_number = Cap(text, idLabelMatch, 1)]
             ELSE result

FinNameId(text, result) ==
    IF Truthy(result.fin_number) THEN result
    ELSE LET nameIdMatch == Search(RE_nameId, text)
         IN  IF ~nameIdMatch.ok THEN result
             ELSE LET candidate == cleanName(Cap(text, nameIdMatch, 1))
                      r1 == [result EXCEPT !.fin_number = Cap(text, nameIdMatch, 2)]
                  IN  IF ~Truthy(result.worker_name) /\ isValidName(candidate)
                      THEN [r1 EXCEPT !.worker_name = candidate]
                      ELSE r1

FinScan(text, result) ==
    IF Truthy(result.fin_number) THEN result
    ELSE LET finMatch == Search(RE_fin, text)
         IN  IF finMatch.ok THEN [result EXCEPT !.fin_number = Cap(text, finMatch, 1)]
             ELSE result

(***************************************************************************)
(* 2. Work permit number                                                   *)
(***************************************************************************)
\* \.?\s*:?\s*
DotColon == <<C({"."}, 0, 1), S0, C({":"}, 0, 1), S0>>

\* (\d[\d\s]{6,})
WpDigits == <<Open(1), C(Digit, 1, 1), C(Digit \cup WS, 6, Inf), Close(1)>>

\* /WORK\s*PERMIT\s*NO\.?\s*:?\s*(\d[\d\s]{6,})/i, /WP\s*NO.../i, /PERMIT\s*NO.../i
wpPatterns ==
    << <<L("WORK"), S0, L("PERMIT"), S0, L("NO")>> \o DotColon \o WpDigits,
       <<L("WP"), S0, L("NO")>> \o DotColon \o WpDigits,
       <<L("PERMIT"), S0, L("NO")>> \o DotColon \o WpDigits >>

\* /WORK\s*PERMIT\s*NO/
RE_wpLabel == <<L("WORK"), S0, L("PERMIT"), S0, L("NO")>>

\* /WORK\s*PERMIT\s*NO\.?\s*:?\s*(\d[\d\s]+)/
RE_wpSameLine ==
    RE_wpLabel \o DotColon \o <<Open(1), C(Digit, 1, 1), C(Digit \cup WS, 1, Inf), Close(1)>>

\* /^(\d[\d\s]{5,})/
RE_wpNextLine == <<Bol, Open(1), C(Digit, 1, 1), C(Digit \cup WS, 5, Inf), Close(1)>>

\* for (const pattern of wpPatterns) { ... break; }
RECURSIVE WpLoop(_, _, _)
WpLoop(text, result, k) ==
    IF k > Len(wpPatterns) THEN result
    ELSE LET match == Search(wpPatterns[k], text)
         IN  IF match.ok
             THEN [result EXCEPT !.work_permit_no = trim(stripWS(Cap(text, match, 1)))]
             ELSE WpLoop(text, result, k + 1)

WpPatterns(text, result) == WpLoop(text, result, 1)

\* the label is on one line and the number on the next
RECURSIVE WpLineLoop(_, _, _)
WpLineLoop(upperLines, result, i) ==
    IF i > Len(upperLines) THEN result
    ELSE IF ~Search(RE_wpLabel, upperLines[i]).ok THEN WpLineLoop(upperLines, result, i + 1)
    ELSE LET sameLine == Search(RE_wpSameLine, upperLines[i])
         IN  IF sameLine.ok
             THEN [result EXCEPT
                     !.work_permit_no = trim(stripWS(Cap(upperLines[i], sameLine, 1)))]
             ELSE IF i + 1 <= Len(upperLines)
             THEN LET nextLine == trim(upperLines[i + 1])
                      numMatch == Search(RE_wpNextLine, nextLine)
                  IN  IF numMatch.ok
                      THEN [result EXCEPT
                              !.work_permit_no = trim(stripWS(Cap(nextLine, numMatch, 1)))]
                      ELSE result
             ELSE result

WpNextLine(upperLines, result) ==
    IF Truthy(result.work_permit_no) THEN result
    ELSE WpLineLoop(upperLines, result, 1)

(***************************************************************************)
(* 3. Worker name                                                          *)
(***************************************************************************)
\* (WORKER|HOLDER)
WorkerHolder == Alt(<< <<L("WORKER")>>, <<L("HOLDER")>> >>)

\* [A-Z\s.'-]
NameClass == AZ \cup WS \cup {".", "'", "-"}

\* /^NAME\s*$/i
RE_nameBare == <<Bol, L("NAME"), S0, Eol>>

\* /^NAME\s*[:\-]/i
RE_nameColon == <<Bol, L("NAME"), S0, C({":", "-"}, 1, 1)>>

\* /^NAME\s+OF\s+(WORKER|HOLDER)/i
RE_nameOf == <<Bol, L("NAME"), S1, L("OF"), S1, WorkerHolder>>

\* /^NAME\s*(?:OF\s+(?:WORKER|HOLDER))?\s*[:\-]?\s+([A-Z][A-Z\s.'-]{2,})/
RE_nameSameLine ==
    <<Bol, L("NAME"), S0, Opt(<< <<L("OF"), S1, WorkerHolder>> >>), S0,
      C({":", "-"}, 0, 1), S1, Open(1), C(AZ, 1, 1), C(NameClass, 2, Inf), Close(1)>>

\* /^[A-Z]\d{7}[A-Z]$/
RE_finLine == <<Bol, C(AZ, 1, 1), C(Digit, 7, 7), C(AZ, 1, 1), Eol>>

\* /^\d+$/
RE_digitsLine == <<Bol, C(Digit, 1, Inf), Eol>>

\* /^(WORK\s*PERMIT|SECTOR|DOB|DATE|SEX|EMPLOYER|NATIONALITY|ID\s*NO|FIN|SERIAL|ISSUED)/
RE_labelStart ==
    <<Bol, Alt(<< <<L("WORK"), S0, L("PERMIT")>>, <<L("SECTOR")>>, <<L("DOB")>>,
                  <<L("DATE")>>, <<L("SEX")>>, <<L("EMPLOYER")>>, <<L("NATIONALITY")>>,
                  <<L("ID"), S0, L("NO")>>, <<L("FIN")>>, <<L("SERIAL")>>,
                  <<L("ISSUED")>> >>)>>

\* /^[A-Z][A-Z\s.'\-\/]{2,}$/
RE_nameLine == <<Bol, C(AZ, 1, 1), C(NameClass \cup {"/"}, 2, Inf), Eol>>

\* an unanchored alternation of words, /PTE|LTD|.../
AnyWord(words) == <<Alt([n \in 1..Len(words) |-> <<L(words[n])>>])>>

\* /PTE|LTD|SDN|BHD|CORP|INC|COMPANY/
RE_company == AnyWord(<<"PTE", "LTD", "SDN", "BHD", "CORP", "INC", "COMPANY">>)

\* the lines after a NAME label: for (let j = i + 1; j < Math.min(i + 4, ...); j++)
RECURSIVE NameFollowing(_, _, _, _)
NameFollowing(upperLines, result, j, last) ==
    IF j > last THEN result
    ELSE LET nextLine == trim(upperLines[j]) IN
         IF Search(RE_finLine, nextLine).ok
         THEN NameFollowing(upperLines, result, j + 1, last)
         ELSE IF Search(RE_digitsLine, nextLine).ok
         THEN NameFollowing(upperLines, result, j + 1, last)
         ELSE IF Search(RE_labelStart, nextLine).ok THEN result
         ELSE IF /\ Search(RE_nameLine, nextLine).ok
                 /\ ~Search(RE_company, nextLine).ok
                 /\ isValidName(cleanName(nextLine))
         THEN [result EXCEPT !.worker_name = cleanName(nextLine)]
         ELSE NameFollowing(upperLines, result, j + 1, last)

\* the first line that is a NAME label: name on the same line, or on the
\* following lines
RECURSIVE NameLabelLoop(_, _, _)
NameLabelLoop(upperLines, result, i) ==
    IF i > Len(upperLines) THEN result
    ELSE LET line == upperLines[i] IN
         IF ~(\/ Search(RE_nameBare, line).ok
              \/ Search(RE_nameColon, line).ok
              \/ Search(RE_nameOf, line).ok)
         THEN NameLabelLoop(upperLines, result, i + 1)
         ELSE LET sameLineMatch == Search(RE_nameSameLine, line) IN
              IF sameLineMatch.ok /\ isValidName(cleanName(Cap(line, sameLineMatch, 1)))
              THEN [result EXCEPT !.worker_name = cleanName(Cap(line, sameLineMatch, 1))]
              ELSE NameFollowing(upperLines, result, i + 1,
                                 IF i + 3 < Len(upperLines) THEN i + 3
                                 ELSE Len(upperLines))

NameLabel(upperLines, result) == NameLabelLoop(upperLines, result, 1)

\* /NAME\s*[:\-]?\s+([A-Z][A-Z\s.'\-]{2,})/
RE_nameInline ==
    <<L("NAME"), S0, C({":", "-"}, 0, 1), S1,
      Open(1), C(AZ, 1, 1), C(NameClass, 2, Inf), Close(1)>>

\* the inline fallback taking the cleaned candidate without the validity test
NameInlineUnvalidated(text, result) ==
    IF Truthy(result.worker_name) THEN result
    ELSE LET nameInline == Search(RE_nameInline, text) IN
         IF nameInline.ok
         THEN [result EXCEPT !.worker_name = cleanName(Cap(text, nameInline, 1))]
         ELSE result

\* Fallback: "NAME" with inline value, anywhere in the text
NameInline(text, result) ==
    IF Truthy(result.worker_name) THEN result
    ELSE LET nameInline == Search(RE_nameInline, text) IN
         IF nameInline.ok /\ isValidName(cleanName(Cap(text, nameInline, 1)))
         THEN [result EXCEPT !.worker_name = cleanName(Cap(text, nameInline, 1))]
         ELSE result

\* str.replace(re, ''): the first match removed
ReplaceFirst(re, s) ==
    LET m == Search(re, s) IN
    IF m.ok THEN SubSeq(s, 1, m.b - 1) \o SubSeq(s, m.e, Len(s)) ELSE s

\* /\s*\([FGMST]\d{7}[A-Z]\)/
RE_parenId == <<S0, L("(")>> \o FinToken \o <<L(")")>>

\* /^[A-Z][A-Z\s.'\-\/]{4,}$/
RE_nameLine4 == <<Bol, C(AZ, 1, 1), C(NameClass \cup {"/"}, 4, Inf), Eol>>

\* /ACADEMY|PTE|LTD|COURSE|CERTIFICATE|TRAINING|PERFORM|HEIGHT|SAFETY|WORK|SINGAPORE|QUALIFICATION/
RE_notName1 ==
    AnyWord(<<"ACADEMY", "PTE", "LTD", "COURSE", "CERTIFICATE", "TRAINING", "PERFORM",
              "HEIGHT", "SAFETY", "WORK", "SINGAPORE", "QUALIFICATION">>)

\* /SERIAL|STUDENT|NUMBER|ISSUED|VALID|VENUE|GLOBAL|ACHIEVEMENT|COMPLETION|CERTIFY|ATTENDED|COMPLETED/
RE_notName2 ==
    AnyWord(<<"SERIAL", "STUDENT", "NUMBER", "ISSUED", "VALID", "VENUE", "GLOBAL",
              "ACHIEVEMENT", "COMPLETION", "CERTIFY", "ATTENDED", "COMPLETED">>)

\* /^[FGMST]\d{7}[A-Z]$/
RE_finOnly == <<Bol>> \o FinToken \o <<Eol>>

\* upperLines.findIndex(l => l.includes(fin)), 1-based; 0 when there is none
RECURSIVE findIndex(_, _, _)
findIndex(upperLines, fin, i) ==
    IF i > Len(upperLines) THEN 0
    ELSE IF includes(upperLines[i], fin) THEN i
    ELSE findIndex(upperLines, fin, i + 1)

\* for (let i = finIdx - 1; i >= 0 && i >= finIdx - 3; i--)
RECURSIVE NameBeforeFinLoop(_, _, _, _)
NameBeforeFinLoop(upperLines, result, i, low) ==
    IF i < low THEN result
    ELSE LET cleaned == trim(ReplaceFirst(RE_parenId, trim(upperLines[i]))) IN
         IF /\ Search(RE_nameLine4, cleaned).ok
            /\ ~Search(RE_notName1, cleaned).ok
            /\ ~Search(RE_notName2, cleaned).ok
            /\ ~Search(RE_finOnly, cleaned).ok
            /\ isValidName(cleanName(cleaned))
            /\ wordCount(cleanName(cleaned), FALSE) >= 2
         THEN [result EXCEPT !.worker_name = cleanName(cleaned)]
         ELSE NameBeforeFinLoop(upperLines, result, i - 1, low)

\* Fallback for certs without "Name:" label: a name-like line before the FIN line
NameBeforeFin(upperLines, isCertification, result) ==
    IF ~(~Truthy(result.worker_name) /\ isCertification /\ Truthy(result.fin_number))
    THEN result
    ELSE LET finIdx == findIndex(upperLines, result.fin_number, 1) IN
         IF finIdx > 1
         THEN NameBeforeFinLoop(upperLines, result, finIdx - 1,
                                IF finIdx - 3 > 1 THEN finIdx - 3 ELSE 1)
         ELSE result

\* /THIS\s*IS\s*TO\s*CERTIFY/
RE_certify == <<L("THIS"), S0, L("IS"), S0, L("TO"), S0, L("CERTIFY")>>

\* /^(HAS\s|THAT\s|THE\s|WHO\s)/
RE_filler ==
    <<Bol, Alt(<< <<L("HAS")>>, <<L("THAT")>>, <<L("THE")>>, <<L("WHO")>> >>),
      C(WS, 1, 1)>>

\* /^[A-Z][A-Z\s.'\-]{3,}$/
RE_nameLine3 == <<Bol, C(AZ, 1, 1), C(NameClass, 3, Inf), Eol>>

\* /ACADEMY|COURSE|CERTIFICATE|TRAINING|COMPLETION|ACHIEVEMENT/
RE_notName3 ==
    AnyWord(<<"ACADEMY", "COURSE", "CERTIFICATE", "TRAINING", "COMPLETION",
              "ACHIEVEMENT">>)

\* the lines after "THIS IS TO CERTIFY"
RECURSIVE NameCertifyFollowing(_, _, _, _)
NameCertifyFollowing(upperLines, result, j, last) ==
    IF j > last THEN result
    ELSE LET trimmed == trim(upperLines[j])
             nameLine == trim(ReplaceFirst(RE_parenId, trimmed))
         IN  IF Search(RE_filler, trimmed).ok \/ Len(trimmed) < 4
             THEN NameCertifyFollowing(upperLines, result, j + 1, last)
             ELSE IF /\ Search(RE_nameLine3, nameLine).ok
                     /\ ~Search(RE_notName3, nameLine).ok
                     /\ isValidName(cleanName(nameLine))
                     /\ wordCount(cleanName(nameLine), FALSE) >= 2
             THEN [result EXCEPT !.worker_name = cleanName(nameLine)]
             ELSE NameCertifyFollowing(upperLines, result, j + 1, last)

RECURSIVE NameCertifyLoop(_, _, _)
NameCertifyLoop(upperLines, result, i) ==
    IF i > Len(upperLines) THEN result
    ELSE IF Search(RE_certify, upperLines[i]).ok
    THEN NameCertifyFollowing(upperLines, result, i + 1,
                              IF i + 3 < Len(upperLines) THEN i + 3 ELSE Len(upperLines))
    ELSE NameCertifyLoop(upperLines, result, i + 1)

\* Fallback: "This is to certify that" -> name on following line(s)
NameCertify(upperLines, result) ==
    IF Truthy(result.worker_name) THEN result
    ELSE NameCertifyLoop(upperLines, result, 1)

\* /CERTIFICATE|COMPLETION|ACHIEVEMENT|COURSE/
RE_notName4 == AnyWord(<<"CERTIFICATE", "COMPLETION", "ACHIEVEMENT", "COURSE">>)

RECURSIVE NameAboveLabelLoop(_, _, _)
NameAboveLabelLoop(upperLines, result, i) ==
    IF i > Len(upperLines) THEN result
    ELSE IF ~Search(RE_nameBare, upperLines[i]).ok
    THEN NameAboveLabelLoop(upperLines, result, i + 1)
    ELSE LET prev == trim(upperLines[i - 1]) IN
         IF /\ Search(RE_nameLine3, prev).ok
            /\ ~Search(RE_notName4, prev).ok
            /\ isValidName(cleanName(prev))
         THEN [result EXCEPT !.worker_name = cleanName(prev)]
         ELSE result

\* Fallback: label-below-value: the line before a "NAME" label
NameAboveLabel(upperLines, result) ==
    IF Truthy(result.worker_name) THEN result
    ELSE NameAboveLabelLoop(upperLines, result, 2)

(***************************************************************************)
(* 6. Nationality and 7a. Race                                             *)
(***************************************************************************)
\* ([A-Z][A-Z\s]+?)(?:\n|$)
LineValue ==
    <<Open(1), C(AZ, 1, 1), CLazy(AZ \cup WS, 1, Inf), Close(1),
      Alt(<< <<L("\n")>>, <<Eol>> >>)>>

\* /NATIONALITY\s*[:\-]?\s*([A-Z][A-Z\s]+?)(?:\n|$)/ and
\* /COUNTRY\s*(?:OF\s*ORIGIN)?\s*[:\-]?\s*([A-Z][A-Z\s]+?)(?:\n|$)/
nationalityPatterns ==
    << <<L("NATIONALITY")>> \o ColonDash \o LineValue,
       <<L("COUNTRY"), S0, Opt(<< <<L("OF"), S0, L("ORIGIN")>> >>)>> \o ColonDash
           \o LineValue >>

knownNationalities ==
    <<"INDIAN", "INDIA", "BANGLADESHI", "BANGLADESH", "CHINESE", "CHINA", "PRC",
      "NEPALESE", "NEPAL", "VIETNAMESE", "VIETNAM", "THAI", "THAILAND",
      "MYANMAR", "BURMESE", "FILIPINO", "PHILIPPINES", "INDONESIAN", "INDONESIA",
      "SRI LANKAN", "SRI LANKA", "MALAYSIAN", "MALAYSIA", "PAKISTANI", "PAKISTAN">>

knownRaces ==
    <<"CHINESE", "MALAY", "INDIAN", "EURASIAN", "CAUCASIAN", "JAPANESE", "KOREAN", "SIKH">>

\* the first word of the list that text includes, NULL when it includes none
FirstIncluded(words, text) ==
    LET found == {n \in 1..Len(words) : includes(text, words[n])}
    IN  IF found = {} THEN NULL
        ELSE words[CHOOSE n \in found : \A o \in found : n <= o]

\* match[1].trim() of the first nationality pattern that matches, NULL for none
NationalityLabel(text) ==
    IF Search(nationalityPatterns[1], text).ok
    THEN trim(Cap(text, Search(nationalityPatterns[1], text), 1))
    ELSE IF Search(nationalityPatterns[2], text).ok
    THEN trim(Cap(text, Search(nationalityPatterns[2], text), 1))
    ELSE NULL

\* section 6: the label patterns, then the known nationalities anywhere
Nationality(text, result) ==
    IF NationalityLabel(text) # NULL
    THEN [result EXCEPT !.nationality = NationalityLabel(text)]
    ELSE IF ~Truthy(result.nationality) /\ FirstIncluded(knownNationalities, text) # NULL
    THEN [result EXCEPT !.nationality = FirstIncluded(knownNationalities, text)]
    ELSE result

\* /^RACE\s*$/
RE_raceAlone == <<Bol, L("RACE"), S0, Eol>>

\* /RACE\s*[:\-]?\s*(CHINESE|MALAY|INDIAN|EURASIAN|CAUCASIAN|JAPANESE|KOREAN|SIKH)/
RE_raceInline ==
    <<L("RACE")>> \o ColonDash
    \o <<Open(1), Alt([n \in 1..Len(knownRaces) |-> <<L(knownRaces[n])>>]), Close(1)>>

\* the loop over the lines: the value on the line after a bare label, or on
\* the line of the label
RECURSIVE RaceLoop(_, _, _)
RaceLoop(upperLines, result, i) ==
    IF i > Len(upperLines) THEN result
    ELSE IF /\ Search(RE_raceAlone, upperLines[i]).ok
            /\ i + 1 <= Len(upperLines)
            /\ FirstIncluded(knownRaces, trim(upperLines[i + 1])) # NULL
    THEN [result EXCEPT !.race = trim(upperLines[i + 1])]
    ELSE IF Search(RE_raceInline, upperLines[i]).ok
    THEN [result EXCEPT
            !.race = trim(Cap(upperLines[i], Search(RE_raceInline, upperLines[i]), 1))]
    ELSE RaceLoop(upperLines, result, i + 1)

\* section 7a: the label scan, then on identity cards and work permits the
\* known races anywhere
Race(text, upperLines, isIdentityCard, isWorkPermit, result) ==
    IF Truthy(RaceLoop(upperLines, result, 1).race) THEN RaceLoop(upperLines, result, 1)
    ELSE IF (isIdentityCard \/ isWorkPermit) /\ FirstIncluded(knownRaces, text) # NULL
    THEN [result EXCEPT !.race = FirstIncluded(knownRaces, text)]
    ELSE result

(***************************************************************************)
(* 7d, 8. Dates                                                            *)
(***************************************************************************)
\* (?:JAN(?:UARY)?|FEB(?:RUARY)?|MAR(?:CH)?|APR(?:IL)?|MAY|JUN(?:E)?|JUL(?:Y)?|
\*    AUG(?:UST)?|SEP(?:TEMBER)?|OCT(?:OBER)?|NOV(?:EMBER)?|DEC(?:EMBER)?)
Mon(abbr, tail) == <<L(abbr), Opt(<< <<L(tail)>> >>)>>

MonthAlt ==
    Alt(<< Mon("JAN", "UARY"), Mon("FEB", "RUARY"), Mon("MAR", "CH"), Mon("APR", "IL"),
           <<L("MAY")>>, Mon("JUN", "E"), Mon("JUL", "Y"), Mon("AUG", "UST"),
           Mon("SEP", "TEMBER"), Mon("OCT", "OBER"), Mon("NOV", "EMBER"),
           Mon("DEC", "EMBER") >>)

\* (?:MONTH)\s*[,\-]?\s*\d{4}
MonthYear == <<MonthAlt, S0, C({",", "-"}, 0, 1), S0, C(Digit, 4, 4)>>

\* \d{1,2}[\s\-](?:MONTH)\s*[,\-]?\s*\d{4}
TextDate == <<C(Digit, 1, 2), C(WS \cup {"-"}, 1, 1)>> \o MonthYear

\* (?:ST|ND|RD|TH)?
Ordinal == Opt(<< <<L("ST")>>, <<L("ND")>>, <<L("RD")>>, <<L("TH")>> >>)

\* /DATE\s*(?:OF\s*)?ISSUE\s*[:;\-]?\s*(\d{1,2}[\/.\-]\d{1,2}[\/.\-]\d{4})/
RE_dateOfIssue ==
    <<L("DATE"), S0, Opt(<< <<L("OF"), S0>> >>), L("ISSUE"), S0,
      C({":", ";", "-"}, 0, 1), S0, Open(1)>> \o NumDate \o <<Close(1)>>

\* /COURSE\s*DATE\s*[:\-]?\s*(\d{1,2}[\\\/\\.\\-]\d{1,2}[\\\/\\.\\-]\d{4})/
RE_courseDate ==
    <<L("COURSE"), S0, L("DATE")>> \o ColonDash \o <<Open(1)>> \o NumDateB \o <<Close(1)>>

\* /^COURSE\s*DATE\s*$/
RE_courseDateLine == <<Bol, L("COURSE"), S0, L("DATE"), S0, Eol>>

\* /(?:DATE\s*OF\s*BIRTH|DOB|D\.?O\.?B\.?|BORN)\s*[:\-]?\s*(\d{1,2}[\\\/\\.\\-]...)/
RE_dob ==
    <<Alt(<< <<L("DATE"), S0, L("OF"), S0, L("BIRTH")>>,
             <<L("DOB")>>,
             <<L("D"), C({"."}, 0, 1), L("O"), C({"."}, 0, 1), L("B"), C({"."}, 0, 1)>>,
             <<L("BORN")>> >>)>>
    \o ColonDash \o <<Open(1)>> \o NumDateB \o <<Close(1)>>

\* /DATE\s*OF\s*BIRTH|^DOB$/
RE_dobLine ==
    <<Alt(<< <<L("DATE"), S0, L("OF"), S0, L("BIRTH")>>, <<Bol, L("DOB"), Eol>> >>)>>

\* /^(\d{1,2}[\/.\-]\d{1,2}[\/.\-]\d{4})/
RE_dateAtStart == <<Bol, Open(1)>> \o NumDate \o <<Close(1)>>

\* (?:ISSUED?\s*DATE|ISSUE|ISSUED|DATE\s*OF\s*ISSUE)\s*[:\-]?\s*
IssueLabel ==
    <<Alt(<< <<L("ISSUE"), C({"D"}, 0, 1), S0, L("DATE")>>,
             <<L("ISSUE")>>,
             <<L("ISSUED")>>,
             <<L("DATE"), S0, L("OF"), S0, L("ISSUE")>> >>)>>
    \o ColonDash

\* IssueLabel followed by a numeric date
RE_issue == IssueLabel \o <<Open(1)>> \o NumDateB \o <<Close(1)>>

\* IssueLabel followed by a text-month date (i flag, on upper-case text)
RE_issueTm == IssueLabel \o <<Open(1)>> \o TextDate \o <<Close(1)>>

\* /(TEXTDATE)\s+TO\s+(TEXTDATE)/i
RE_range ==
    <<Open(1)>> \o TextDate \o <<Close(1), S1, L("TO"), S1, Open(2)>> \o TextDate
    \o <<Close(2)>>

\* /CONDUCTED\s+ON\s+.+?(\d{1,2})(?:ST|ND|RD|TH)?\s+
\*   (?:AND\s+\d{1,2}(?:ST|ND|RD|TH)?\s+)?((?:MONTH)\s*[,\-]?\s*\d{4})/i
RE_conducted ==
    <<L("CONDUCTED"), S1, L("ON"), S1, NCLazy({"\n"}, 1, Inf),
      Open(1), C(Digit, 1, 2), Close(1), Ordinal, S1,
      Opt(<< <<L("AND"), S1, C(Digit, 1, 2), Ordinal, S1>> >>), Open(2)>>
    \o MonthYear \o <<Close(2)>>

\* /(?:EXPIR|VALID\s*(?:UNTIL|TILL|TO)|EXP\.?)\s*[:\-]?\s*(\d{1,2}[\\\/\\.\\-]...)/
RE_expiry ==
    <<Alt(<< <<L("EXPIR")>>,
             <<L("VALID"), S0, Alt(<< <<L("UNTIL")>>, <<L("TILL")>>, <<L("TO")>> >>)>>,
             <<L("EXP"), C({"."}, 0, 1)>> >>)>>
    \o ColonDash \o <<Open(1)>> \o NumDateB \o <<Close(1)>>

\* /VALIDITY\s*(?:PERIOD)?\s*[:\-]?\s*(?:NO\s*EXPIRY|NIL|N\/A|NONE|LIFETIME|NO\s*LIMIT)/
RE_noExpiry ==
    <<L("VALIDITY"), S0, Opt(<< <<L("PERIOD")>> >>)>> \o ColonDash \o
    <<Alt(<< <<L("NO"), S0, L("EXPIRY")>>, <<L("NIL")>>, <<L("N/A")>>, <<L("NONE")>>,
             <<L("LIFETIME")>>, <<L("NO"), S0, L("LIMIT")>> >>)>>

NoExpirySentinel == "No Expiry"

\* 7d. DATE OF ISSUE (IC back)
DateOfIssue(text, isIdentityCard, result) ==
    IF ~(isIdentityCard /\ ~Truthy(result.issue_date)) THEN result
    ELSE LET dateOfIssueMatch == Search(RE_dateOfIssue, text)
         IN  IF dateOfIssueMatch.ok
             THEN [result EXCEPT !.issue_date = formatDate(Cap(text, dateOfIssueMatch, 1))]
             ELSE result

\* fault: the course date is routed to the date of birth
CourseDateToDob(text, result) ==
    LET courseDateMatch == Search(RE_courseDate, text)
    IN  IF courseDateMatch.ok
        THEN [result EXCEPT !.date_of_birth = formatDate(Cap(text, courseDateMatch, 1))]
        ELSE result

\* Course Date -> issue_date
CourseDate(text, result) ==
    LET courseDateMatch == Search(RE_courseDate, text)
    IN  IF courseDateMatch.ok
        THEN [result EXCEPT !.issue_date = formatDate(Cap(text, courseDateMatch, 1))]
        ELSE result

\* text-month course date printed on the line above a bare COURSE DATE label
RECURSIVE CourseDateTextLoop(_, _, _)
CourseDateTextLoop(upperLines, result, i) ==
    IF i > Len(upperLines) THEN result
    ELSE IF Search(RE_courseDateLine, upperLines[i]).ok /\ i > 1
              /\ parseTextMonthDate(trim(upperLines[i - 1])) # NULL
         THEN [result EXCEPT !.issue_date = parseTextMonthDate(trim(upperLines[i - 1]))]
         ELSE CourseDateTextLoop(upperLines, result, i + 1)

CourseDateText(upperLines, result) ==
    IF Truthy(result.issue_date) THEN result
    ELSE CourseDateTextLoop(upperLines, result, 1)

\* Explicit DOB
Dob(text, result) ==
    LET dobMatch == Search(RE_dob, text)
    IN  IF dobMatch.ok
        THEN [result EXCEPT !.date_of_birth = formatDate(Cap(text, dobMatch, 1))]
        ELSE result

\* DOB label and date on separate lines
RECURSIVE DobLineLoop(_, _, _)
DobLineLoop(upperLines, result, i) ==
    IF i > Len(upperLines) THEN result
    ELSE IF ~Search(RE_dobLine, upperLines[i]).ok THEN DobLineLoop(upperLines, result, i + 1)
    ELSE IF i + 1 <= Len(upperLines)
         THEN LET nextLine == trim(upperLines[i + 1])
                  dateMatch == Search(RE_dateAtStart, nextLine)
              IN  IF dateMatch.ok
                  THEN [result EXCEPT
                          !.date_of_birth = formatDate(Cap(nextLine, dateMatch, 1))]
                  ELSE result
         ELSE result

DobLine(upperLines, result) ==
    IF Truthy(result.date_of_birth) THEN result
    ELSE DobLineLoop(upperLines, result, 1)

\* Explicit Issue Date
IssueDate(text, result) ==
    IF Truthy(result.issue_date) THEN result
    ELSE LET issueMatch == Search(RE_issue, text)
         IN  IF issueMatch.ok
             THEN [result EXCEPT !.issue_date = formatDate(Cap(text, issueMatch, 1))]
             ELSE result

\* Text-month issue date
IssueDateTm(text, result) ==
    IF Truthy(result.issue_date) THEN result
    ELSE LET issueTmMatch == Search(RE_issueTm, text)
         IN  IF issueTmMatch.ok
             THEN [result EXCEPT
                     !.issue_date = parseTextMonthDate(Cap(text, issueTmMatch, 1))]
             ELSE result

\* the date range giving its start date
DateRangeStart(text, result) ==
    IF Truthy(result.issue_date) THEN result
    ELSE LET rangeMatch == Search(RE_range, text)
         IN  IF rangeMatch.ok
             THEN [result EXCEPT !.issue_date = parseTextMonthDate(Cap(text, rangeMatch, 1))]
             ELSE result

\* Date range: issue_date = end date
DateRange(text, result) ==
    IF Truthy(result.issue_date) THEN result
    ELSE LET rangeMatch == Search(RE_range, text)
         IN  IF rangeMatch.ok
             THEN [result EXCEPT !.issue_date = parseTextMonthDate(Cap(text, rangeMatch, 2))]
             ELSE result

\* "conducted on ... December 2011"
Conducted(text, result) ==
    IF Truthy(result.issue_date) THEN result
    ELSE LET conductedMatch == Search(RE_conducted, text)
         IN  IF conductedMatch.ok
             THEN [result EXCEPT !.issue_date =
                     parseTextMonthDate(Cap(text, conductedMatch, 1) \o " "
                                        \o Cap(text, conductedMatch, 2))]
             ELSE result

\* Standalone text-month date as last resort for issue_date on certs
RECURSIVE StandaloneLoop(_, _, _)
StandaloneLoop(upperLines, result, i) ==
    IF i > Len(upperLines) THEN result
    ELSE LET d == parseTextMonthDate(upperLines[i])
         IN  IF Truthy(d) THEN [result EXCEPT !.issue_date = d]
             ELSE StandaloneLoop(upperLines, result, i + 1)

Standalone(upperLines, isCertification, result) ==
    IF ~Truthy(result.issue_date) /\ isCertification
    THEN StandaloneLoop(upperLines, result, 1)
    ELSE result

\* the expiry rule storing the date as it is written in the text
ExpiryRaw(text, result) ==
    LET expiryMatch == Search(RE_expiry, text)
    IN  IF expiryMatch.ok
        THEN [result EXCEPT !.expiry_date = Cap(text, expiryMatch, 1)]
        ELSE result

\* Expiry Date
Expiry(text, result) ==
    LET expiryMatch == Search(RE_expiry, text)
    IN  IF expiryMatch.ok
        THEN [result EXCEPT !.expiry_date = formatDate(Cap(text, expiryMatch, 1))]
        ELSE result

\* "Validity: No Expiry" / "Validity Period: NIL"
NoExpiry(text, result) ==
    IF ~Truthy(result.expiry_date) /\ Search(RE_noExpiry, text).ok
    THEN [result EXCEPT !.expiry_date = NoExpirySentinel]
    ELSE result

\* Collect all dates for fallback: datePattern.exec(text) in a loop (g flag)
RECURSIVE CollectFrom(_, _)
CollectFrom(text, from) ==
    LET m == SearchFrom(RE_date3, text, from)
    IN  IF ~m.ok THEN <<>>
        ELSE <<IsoOfMatch(text, m)>> \o CollectFrom(text, m.e)

CollectDates(text) == CollectFrom(text, 1)

\* fault: the date of birth is not filtered out of the candidates
RemainingKeepsDob(dates, result) == Sort(dates)

\* sorted.filter(d => d !== result.date_of_birth)
Remaining(dates, result) == SelectSeq(Sort(dates), LAMBDA d : d # result.date_of_birth)

\* fault: the fallback runs on certifications too
FallbackDobAnyDocument(dates, isCertification, result) ==
    IF ~Truthy(result.date_of_birth) /\ Len(dates) > 0
    THEN [result EXCEPT !.date_of_birth = Sort(dates)[1]]
    ELSE result

\* fault: the fallback does not test whether a date of birth is already set
FallbackDobUnguarded(dates, isCertification, result) ==
    IF ~isCertification /\ Len(dates) > 0
    THEN [result EXCEPT !.date_of_birth = Sort(dates)[1]]
    ELSE result

\* Fallback DOB: if this is NOT a certification, use earliest date
FallbackDob(dates, isCertification, result) ==
    IF ~Truthy(result.date_of_birth) /\ ~isCertification /\ Len(dates) > 0
    THEN [result EXCEPT !.date_of_birth = Sort(dates)[1]]
    ELSE result

\* fault: the fallback does not test whether an expiry is already set
FallbackIssueExpiryOverSentinel(dates, isCertification, result) ==
    IF ~(~Truthy(result.issue_date) /\ Len(dates) >= 2)
    THEN result
    ELSE LET remaining == Remaining(dates, result)
         IN  IF Len(remaining) >= 2
             THEN [result EXCEPT !.issue_date = remaining[1],
                                 !.expiry_date = remaining[Len(remaining)]]
             ELSE IF Len(remaining) = 1
             THEN IF isCertification
                  THEN [result EXCEPT !.issue_date = remaining[1]]
                  ELSE [result EXCEPT !.expiry_date = remaining[1]]
             ELSE result

\* Fallback issue/expiry from remaining dates
FallbackIssueExpiry(dates, isCertification, result) ==
    IF ~(~Truthy(result.issue_date) /\ ~Truthy(result.expiry_date) /\ Len(dates) >= 2)
    THEN result
    ELSE LET remaining == Remaining(dates, result)
         IN  IF Len(remaining) >= 2
             THEN [result EXCEPT !.issue_date = remaining[1],
                                 !.expiry_date = remaining[Len(remaining)]]
             ELSE IF Len(remaining) = 1
             THEN IF isCertification
                  THEN [result EXCEPT !.issue_date = remaining[1]]
                  ELSE [result EXCEPT !.expiry_date = remaining[1]]
             ELSE result

(***************************************************************************)
(* State                                                                   *)
(***************************************************************************)
VARIABLES
    rawText,          \* processOCR: text recognised in the uploaded image
    documentType,     \* processOCR: the document_type form field
    pc,               \* position of the request inside processOCR / parseOCRText
    text,             \* parseOCRText: rawText.toUpperCase()
    lines,            \* parseOCRText: trimmed non-empty lines, original case
    upperLines,       \* parseOCRText: trimmed non-empty lines, upper case
    isWorkPermit,     \* parseOCRText: document type flags
    isIdentityCard,
    isCertification,
    result,           \* parseOCRText: the record under construction
    dates,            \* parseOCRText: dates collected for the fallback
    extracted,        \* processOCR: the `extracted` member of the response
    ocrFiles,         \* browser: files chosen for OCR, each held as the text on it
    ocrResult,        \* browser: result of the last completed runOCR
    runPc,            \* browser: position inside runOCR
    docType,          \* runOCR: value of the document type selector
    totalFiles,       \* runOCR: ocrFiles.length when the run started
    i,                \* runOCR: loop index (0-based, as in the source)
    merged,           \* runOCR: the merged record
    allRawText,       \* runOCR: accumulated raw text
    pending,          \* runOCR: the file of the request in flight
    responses,        \* history: the `extracted` of every response merged so far
    sent,             \* history: index and file of every request of the run
    filesAtStart,     \* history: ocrFiles as it was when the run started
    dmy,              \* date helpers: the day, month and year written out in dateStr
    dateStr,          \* date helpers: the argument of the last call
    normalized,       \* date helpers: the value the last call returned
    returned,         \* history: per text, the runs completed and the fin_number values
    workers,          \* database: the rows of table workers, in insertion order
    requests,         \* database clients: per client, the request being served
    certifications,   \* database: the rows of table certifications
    documents         \* database: the rows of table documents

parseVars == <<rawText, documentType, pc, text, lines, upperLines, isWorkPermit,
               isIdentityCard, isCertification, result, dates, extracted>>

ocrVars == <<ocrFiles, ocrResult, runPc, docType, totalFiles, i, merged, allRawText,
             pending, responses, sent, filesAtStart>>

dateVars == <<dmy, dateStr, normalized>>

childVars == <<certifications, documents>>

dbVars == <<workers, requests, childVars>>

auxVars == <<dateVars, returned, dbVars>>

vars == <<parseVars, ocrVars, auxVars>>

frame == <<rawText, documentType, text, lines, upperLines, isWorkPermit,
           isIdentityCard, isCertification, dates, extracted>>

(***************************************************************************)
(* Inputs                                                                  *)
(***************************************************************************)
MaxLines == 2

DocTypes == {"auto", "work_permit", "certification"}

RECURSIVE JoinLines(_)
JoinLines(q) ==
    IF q = <<>> THEN ""
    ELSE IF Len(q) = 1 THEN q[1]
    ELSE q[1] \o "\n" \o JoinLines(Tail(q))

\* every text of at most n lines drawn from Pool
TextsOf(Pool, n) == {JoinLines(q) : q \in UNION {[1..k -> Pool] : k \in 0..n}}

\* labeled date lines (Spec)
LabelPool ==
    {"DATE OF ISSUE: 05/06/2015", "COURSE DATE: 13/02/2022", "COURSE DATE",
     "DOB: 16-06-1988", "DATE OF BIRTH", "3-4-2021", "14 DEC 2011"}

\* labeled and unlabeled dates for the positional fallback (SpecFallback)
FallbackPool ==
    {"DOB: 16-06-1988", "02/02/1980", "07.08.2019 9/9/2031", "9/9/2031",
     "EXP: 31/12/2030",
     "VALIDITY: NO EXPIRY", "ISSUE DATE: 01/03/2020"}

\* blocks of a work permit: labels with their values on the next line (SpecPermit)
PermitPool ==
    {"NAME\nJOHN TAN", "WORK PERMIT NO\n0 34773262", "FIN G1234567A",
     "WORK PERMIT NO\n0 34773262\n01-02-2020", "SECTOR: MARINE"}

MaxBlocks == 3

\* name labels and name-like lines (SpecNames)
NamePool ==
    {"NAME\nJOHN TAN", "NAME:  O'BRIEN   J.", "NAME: ABCD", "VERNON TAN (S5555555E)",
     "THIS IS TO CERTIFY THAT\nMUTHU KUMAR", "RAJ KUMAR\nNAME", "NAME OF WORKER\nG7777777H"}

\* identifier and work-permit lines (SpecIds)
IdPool ==
    {"IDENTITY CARD NO. S1111111A", "NRIC NO: T2222222B", "NRIC NO: G7777777H",
     "FIN: G3333333C", "VERNON TAN (S5555555E)", "M6666666F",
     "WORK PERMIT NO: 0 34773262", "WORK PERMIT NO", "0 34773262", "12 345"}

MaxIdLines == 2

\* the browser application before any file is chosen
\* ocrResult = null
NoOcrResult == [extracted |-> NULL, raw_text |-> NULL]

OcrIdle ==
    /\ ocrFiles = <<>>
    /\ ocrResult = NoOcrResult
    /\ runPc = "idle"
    /\ docType = "auto"
    /\ totalFiles = 0
    /\ i = 0
    /\ merged = <<>>
    /\ allRawText = ""
    /\ pending = NULL
    /\ responses = <<>>
    /\ sent = <<>>
    /\ filesAtStart = <<>>

DateIdle ==
    /\ dmy = <<>>
    /\ dateStr = ""
    /\ normalized = NULL

DbIdle ==
    /\ workers = <<>>
    /\ requests = <<>>
    /\ certifications = <<>>
    /\ documents = <<>>

AuxIdle == DateIdle /\ returned = <<>> /\ DbIdle

ParseIdle ==
    /\ rawText = ""
    /\ documentType = "auto"
    /\ pc = "idle"
    /\ text = ""
    /\ lines = <<>>
    /\ upperLines = <<>>
    /\ isWorkPermit = FALSE
    /\ isIdentityCard = FALSE
    /\ isCertification = FALSE
    /\ result = EmptyResult
    /\ dates = <<>>
    /\ extracted = NULL

InitParse(Texts) ==
    /\ rawText \in Texts
    /\ documentType \in DocTypes
    /\ pc = "processOCR"
    /\ text = ""
    /\ lines = <<>>
    /\ upperLines = <<>>
    /\ isWorkPermit = FALSE
    /\ isIdentityCard = FALSE
    /\ isCertification = FALSE
    /\ result = EmptyResult
    /\ dates = <<>>
    /\ extracted = NULL
    /\ OcrIdle
    /\ AuxIdle

(***************************************************************************)
(* processOCR and the steps of parseOCRText                                *)
(***************************************************************************)
\* the `extracted: {}` of the "No text detected" responses
EmptyObject == <<>>

\* a description member of the Vision response that is truthy and not a string
NotAString == "<not a string>"

\* processOCR after the Vision call: no text, or hand the text to parseOCRText.
\* rawText.trim is not a function when rawText is not a string: the call throws
\* a TypeError, which the entry point turns into a 500 response.
ProcessOCR ==
    /\ pc = "processOCR"
    /\ IF rawText = NotAString
       THEN /\ extracted' = extracted
            /\ pc' = "TypeError"
       ELSE IF trim(rawText) = ""
       THEN /\ extracted' = EmptyObject
            /\ pc' = "done"
       ELSE /\ extracted' = extracted
            /\ pc' = "parseOCRText"
    /\ UNCHANGED <<rawText, documentType, text, lines, upperLines, isWorkPermit,
                   isIdentityCard, isCertification, result, dates, ocrVars, auxVars>>

\* parseOCRText entry: line normalisation, empty record, document type flags
\* parseOCRText starting on the record of the invocation before
ParseStartKeepResult ==
    /\ pc = "parseOCRText"
    /\ text' = toUpperCase(rawText)
    /\ lines' = normLines(rawText)
    /\ upperLines' = normLines(toUpperCase(rawText))
    /\ result' = result
    /\ isWorkPermit' = FlagWorkPermit(toUpperCase(rawText), documentType)
    /\ isIdentityCard' = FlagIdentityCard(toUpperCase(rawText), documentType)
    /\ isCertification' = FlagCertification(toUpperCase(rawText), documentType)
    /\ pc' = "finIcNo"
    /\ UNCHANGED <<rawText, documentType, dates, extracted, ocrVars, auxVars>>

ParseStart ==
    /\ pc = "parseOCRText"
    /\ text' = toUpperCase(rawText)
    /\ lines' = normLines(rawText)
    /\ upperLines' = normLines(toUpperCase(rawText))
    /\ result' = EmptyResult
    /\ isWorkPermit' = FlagWorkPermit(toUpperCase(rawText), documentType)
    /\ isIdentityCard' = FlagIdentityCard(toUpperCase(rawText), documentType)
    /\ isCertification' = FlagCertification(toUpperCase(rawText), documentType)
    /\ pc' = "finIcNo"
    /\ UNCHANGED <<rawText, documentType, dates, extracted, ocrVars, auxVars>>

\* one rule of parseOCRText: from position at to position next, rewriting result
Rule(at, next, newResult) ==
    /\ pc = at
    /\ result' = newResult
    /\ pc' = next
    /\ UNCHANGED <<frame, ocrVars, auxVars>>

StepFinIcNo == Rule("finIcNo", "finNricNo", FinIcNo(text, result))

StepFinNricNo == Rule("finNricNo", "finIdLabel", FinNricNo(text, result))

StepFinIdLabel == Rule("finIdLabel", "finNameId", FinIdLabel(text, result))

StepFinNameId == Rule("finNameId", "finScan", FinNameId(text, result))

StepFinScan == Rule("finScan", "wpPatterns", FinScan(text, result))

StepWpPatterns == Rule("wpPatterns", "wpNextLine", WpPatterns(text, result))

StepWpNextLine == Rule("wpNextLine", "nameLabel", WpNextLine(upperLines, result))

StepNameLabel == Rule("nameLabel", "nameInline", NameLabel(upperLines, result))

StepNameInline == Rule("nameInline", "nameBeforeFin", NameInline(text, result))

StepNameBeforeFin ==
    Rule("nameBeforeFin", "nameCertify", NameBeforeFin(upperLines, isCertification, result))

StepNameCertify == Rule("nameCertify", "nameAboveLabel", NameCertify(upperLines, result))

StepNameAboveLabel ==
    Rule("nameAboveLabel", "nationality", NameAboveLabel(upperLines, result))

StepNationality == Rule("nationality", "race", Nationality(text, result))

StepRace ==
    Rule("race", "dateOfIssue", Race(text, upperLines, isIdentityCard, isWorkPermit, result))

StepDateOfIssue ==
    Rule("dateOfIssue", "courseDate", DateOfIssue(text, isIdentityCard, result))

StepCourseDate == Rule("courseDate", "courseDateText", CourseDate(text, result))

StepCourseDateText == Rule("courseDateText", "dob", CourseDateText(upperLines, result))

StepDob == Rule("dob", "dobLine", Dob(text, result))

StepDobLine == Rule("dobLine", "issueDate", DobLine(upperLines, result))

StepIssueDate == Rule("issueDate", "issueDateTm", IssueDate(text, result))

StepIssueDateTm == Rule("issueDateTm", "dateRange", IssueDateTm(text, result))

StepDateRange == Rule("dateRange", "conducted", DateRange(text, result))

StepConducted == Rule("conducted", "standalone", Conducted(text, result))

StepStandalone ==
    Rule("standalone", "expiry", Standalone(upperLines, isCertification, result))

StepExpiry == Rule("expiry", "noExpiry", Expiry(text, result))

StepNoExpiry == Rule("noExpiry", "collectDates", NoExpiry(text, result))

StepCollectDates ==
    /\ pc = "collectDates"
    /\ dates' = CollectDates(text)
    /\ pc' = "fallbackDob"
    /\ UNCHANGED <<rawText, documentType, text, lines, upperLines, isWorkPermit,
                   isIdentityCard, isCertification, result, extracted, ocrVars, auxVars>>

StepFallbackDob ==
    Rule("fallbackDob", "fallbackIssueExpiry", FallbackDob(dates, isCertification, result))

StepFallbackIssueExpiry ==
    Rule("fallbackIssueExpiry", "return", FallbackIssueExpiry(dates, isCertification, result))

\* return result; processOCR puts it in the response
Return ==
    /\ pc = "return"
    /\ extracted' = result
    /\ pc' = "done"
    /\ returned' =
          IF rawText \in DOMAIN returned
          THEN [returned EXCEPT ![rawText] =
                   [runs |-> @.runs + 1, fins |-> @.fins \cup {result.fin_number}]]
          ELSE returned
    /\ UNCHANGED <<rawText, documentType, text, lines, upperLines, isWorkPermit,
                   isIdentityCard, isCertification, result, dates, ocrVars, dateVars,
                   dbVars>>

NextParse ==
    \/ ProcessOCR \/ ParseStart
    \/ StepFinIcNo \/ StepFinNricNo \/ StepFinIdLabel \/ StepFinNameId \/ StepFinScan
    \/ StepWpPatterns \/ StepWpNextLine
    \/ StepNameLabel \/ StepNameInline \/ StepNameBeforeFin \/ StepNameCertify
    \/ StepNameAboveLabel \/ StepNationality \/ StepRace
    \/ StepDateOfIssue \/ StepCourseDate \/ StepCourseDateText
    \/ StepDob \/ StepDobLine
    \/ StepIssueDate \/ StepIssueDateTm \/ StepDateRange \/ StepConducted \/ StepStandalone
    \/ StepExpiry \/ StepNoExpiry
    \/ StepCollectDates \/ StepFallbackDob \/ StepFallbackIssueExpiry
    \/ Return

Init == InitParse(TextsOf(LabelPool, MaxLines))

Next == NextParse

Spec == Init /\ [][Next]_vars

InitFallback == InitParse(TextsOf(FallbackPool, MaxLines))

\* nationality and race, labeled and bare, and a line that makes a work permit
VocabularyPool ==
    {"NATIONALITY: THAI", "COUNTRY OF ORIGIN - NEPAL", "RACE", "RACE: MALAY",
     "INDIAN", "KOREAN", "WORK PERMIT"}

InitVocabulary == InitParse(TextsOf(VocabularyPool, MaxLines))

SpecVocabulary == InitVocabulary /\ [][Next]_vars

SpecFallback == InitFallback /\ [][Next]_vars

InitIds == InitParse(TextsOf(IdPool, MaxIdLines))

SpecIds == InitIds /\ [][Next]_vars

\* texts sent again and again: identifiers found by different tiers, and none
RepeatPool == {"FIN G1234567A\nS7654321B", "VERNON TAN (S5555555E)", "NAME: JOHN TAN"}

MaxRuns == 2

\* the worker serves the next request: a fresh invocation of processOCR.  The
\* locals of the invocation before are dead; the model leaves their values in
\* place so that an invocation reading them would show.
NewRequest ==
    /\ pc = "done"
    /\ \E t \in DOMAIN returned, dt \in DocTypes :
          /\ returned[t].runs < MaxRuns
          /\ rawText' = t
          /\ documentType' = dt
    /\ extracted' = NULL
    /\ pc' = "processOCR"
    /\ UNCHANGED <<text, lines, upperLines, isWorkPermit, isIdentityCard,
                   isCertification, result, dates, ocrVars, auxVars>>

InitRepeat ==
    /\ rawText \in RepeatPool
    /\ documentType \in DocTypes
    /\ pc = "processOCR"
    /\ text = ""
    /\ lines = <<>>
    /\ upperLines = <<>>
    /\ isWorkPermit = FALSE
    /\ isIdentityCard = FALSE
    /\ isCertification = FALSE
    /\ result = EmptyResult
    /\ dates = <<>>
    /\ extracted = NULL
    /\ OcrIdle
    /\ DateIdle
    /\ DbIdle
    /\ returned = [t \in RepeatPool |-> [runs |-> 0, fins |-> {}]]

NextRepeat == NextParse \/ NewRequest

SpecRepeat == InitRepeat /\ [][NextRepeat]_vars

\* texts with nothing to read, and a response that carries no string
InitMalformed == InitParse(TextsOf(LabelPool, MaxLines) \cup {" ", " \n\t", NotAString})

SpecMalformed == InitMalformed /\ [][Next]_vars

\* lines in mixed case, with blanks around them, and lines of blanks only
LinePool == {"  Name: Raj Kumar ", "", " \t", "\tfin g1234567a", "Dob"}

InitLines == InitParse(TextsOf(LinePool, MaxLines))

SpecLines == InitLines /\ [][Next]_vars

\* expiry labels in their spellings, each followed by a numeric date
ExpiryPool ==
    {"EXPIRY: 01/01/2025", "EXPIRY DATE: 01/01/2025", "VALID UNTIL 31/12/2030",
     "VALID TILL - 31/12/2030", "VALID TO: 31/12/2030", "DOB: 16-06-1988",
     "TRAINING"}

InitExpiry == InitParse(TextsOf(ExpiryPool, MaxLines))

SpecExpiry == InitExpiry /\ [][Next]_vars

\* the sources of an issue date, one per line
IssuePool ==
    {"ISSUE DATE: 01/03/2020", "ISSUED: 07 MAR 2025", "16 JAN 2017 TO 21 FEB 2017",
     "CONDUCTED ON THE 14TH MARCH 2011", "COURSE DATE: 13/02/2022",
     "DATE OF ISSUE: 05/06/2015"}

InitIssue == InitParse(TextsOf(IssuePool, MaxLines))

SpecIssue == InitIssue /\ [][Next]_vars

InitPermit == InitParse(TextsOf(PermitPool, MaxBlocks))

SpecPermit == InitPermit /\ [][Next]_vars

InitNames == InitParse(TextsOf(NamePool, MaxLines))

SpecNames == InitNames /\ [][Next]_vars

(***************************************************************************)
(* parseOCRText as a function: the rules in source order                   *)
(***************************************************************************)
Identifiers(t, uls, r0) ==
    Bind(FinIcNo(t, r0), LAMBDA r1 :
    Bind(FinNricNo(t, r1), LAMBDA r2 :
    Bind(FinIdLabel(t, r2), LAMBDA r3 :
    Bind(FinNameId(t, r3), LAMBDA r4 :
    Bind(FinScan(t, r4), LAMBDA r5 :
    Bind(WpPatterns(t, r5), LAMBDA r6 :
    WpNextLine(uls, r6)))))))

Names(t, uls, isCert, r0) ==
    Bind(NameLabel(uls, r0), LAMBDA r1 :
    Bind(NameInline(t, r1), LAMBDA r2 :
    Bind(NameBeforeFin(uls, isCert, r2), LAMBDA r3 :
    Bind(NameCertify(uls, r3), LAMBDA r4 :
    NameAboveLabel(uls, r4)))))

LabeledDates(t, uls, isIC, isCert, r0) ==
    Bind(DateOfIssue(t, isIC, r0), LAMBDA r1 :
    Bind(CourseDate(t, r1), LAMBDA r2 :
    Bind(CourseDateText(uls, r2), LAMBDA r3 :
    Bind(Dob(t, r3), LAMBDA r4 :
    Bind(DobLine(uls, r4), LAMBDA r5 :
    Bind(IssueDate(t, r5), LAMBDA r6 :
    Bind(IssueDateTm(t, r6), LAMBDA r7 :
    Bind(DateRange(t, r7), LAMBDA r8 :
    Bind(Conducted(t, r8), LAMBDA r9 :
    Bind(Standalone(uls, isCert, r9), LAMBDA r10 :
    Bind(Expiry(t, r10), LAMBDA r11 :
    NoExpiry(t, r11))))))))))))

FallbackDates(t, isCert, r0) ==
    Bind(CollectDates(t), LAMBDA ds :
    Bind(FallbackDob(ds, isCert, r0), LAMBDA r1 :
    FallbackIssueExpiry(ds, isCert, r1)))

parseOCRText(raw, dt) ==
    Bind(toUpperCase(raw), LAMBDA t :
    Bind(normLines(t), LAMBDA uls :
    Bind(FlagIdentityCard(t, dt), LAMBDA isIC :
    Bind(FlagWorkPermit(t, dt), LAMBDA isWP :
    Bind(FlagCertification(t, dt), LAMBDA isCert :
    Bind(Identifiers(t, uls, EmptyResult), LAMBDA r1 :
    Bind(Names(t, uls, isCert, r1), LAMBDA rn :
    Bind(Nationality(t, rn), LAMBDA rv :
    Bind(Race(t, uls, isIC, isWP, rv), LAMBDA rr :
    Bind(LabeledDates(t, uls, isIC, isCert, rr), LAMBDA r2 :
    FallbackDates(t, isCert, r2)))))))))))

(***************************************************************************)
(* Vocabulary of the properties                                            *)
(***************************************************************************)
DateRoles == {"date_of_birth", "issue_date", "expiry_date"}

ParsePcs ==
    {"finIcNo", "finNricNo", "finIdLabel", "finNameId", "finScan", "wpPatterns",
     "wpNextLine", "nameLabel", "nameInline", "nameBeforeFin", "nameCertify",
     "nameAboveLabel", "nationality", "race", "dateOfIssue", "courseDate", "courseDateText", "dob", "dobLine",
     "issueDate", "issueDateTm", "dateRange", "conducted", "standalone", "expiry",
     "noExpiry", "collectDates", "fallbackDob", "fallbackIssueExpiry"}

\* the response carries a record produced by parseOCRText
Parsed == pc = "done" /\ extracted # EmptyObject

DigitVal ==
    ("0" :> 0) @@ ("1" :> 1) @@ ("2" :> 2) @@ ("3" :> 3) @@ ("4" :> 4) @@
    ("5" :> 5) @@ ("6" :> 6) @@ ("7" :> 7) @@ ("8" :> 8) @@ ("9" :> 9)

IsDigits(s) == \A n \in 1..Len(s) : At(s, n) \in Digit

\* the number written by a string of digits
RECURSIVE NumOf(_)
NumOf(s) ==
    IF s = "" THEN 0
    ELSE 10 * NumOf(SubSeq(s, 1, Len(s) - 1)) + DigitVal[At(s, Len(s))]

\* YYYY-MM-DD: 4 digits, hyphen, 2 digits, hyphen, 2 digits
IsIso(v) ==
    /\ Len(v) = 10
    /\ IsDigits(SubSeq(v, 1, 4)) /\ At(v, 5) = "-"
    /\ IsDigits(SubSeq(v, 6, 7)) /\ At(v, 8) = "-"
    /\ IsDigits(SubSeq(v, 9, 10))

\* calendar order of a canonical date as one number
DateKey(v) ==
    NumOf(SubSeq(v, 1, 4)) * 10000 + NumOf(SubSeq(v, 6, 7)) * 100 + NumOf(SubSeq(v, 9, 10))

\* the same number for a numeric date token D sep M sep YYYY matched by m on s
TokenKey(s, m) ==
    NumOf(Cap(s, m, 3)) * 10000 + NumOf(Cap(s, m, 2)) * 100 + NumOf(Cap(s, m, 1))

Earliest(S) == CHOOSE d \in S : \A e \in S : DateKey(d) <= DateKey(e)

Latest(S) == CHOOSE d \in S : \A e \in S : DateKey(e) <= DateKey(d)

DateSet == {dates[k] : k \in 1..Len(dates)}

\* the date fields as the labeled rules leave them, before the positional fallback
Labeled == LabeledDates(text, upperLines, isIdentityCard, isCertification, EmptyResult)

NoDateLabel == \A f \in DateRoles : Labeled[f] = NULL

(***************************************************************************)
(* Properties of the Date-Role Assigner                                    *)
(***************************************************************************)
\* C3: during one extraction each of date_of_birth, issue_date and expiry_date
\* is assigned a non-null value at most once: once a rule has set the field, no
\* rule that runs afterwards changes its value.
C3_FirstWriterWins ==
    [][\A f \in DateRoles :
          (pc \in ParsePcs /\ Truthy(result[f])) => result'[f] = result[f]]_vars

\* C4: a date role set by a labeled rule is left unchanged by the positional
\* fallback (the two fallback steps), even when the text holds an unlabeled
\* date that the fallback would otherwise have chosen.
C4_LabeledBeatsFallback ==
    [][\A f \in DateRoles :
          (pc \in {"fallbackDob", "fallbackIssueExpiry"} /\ Truthy(result[f]))
              => result'[f] = result[f]]_vars

\* a labeled date of birth survived although an earlier unlabeled date exists
\* on a document that is not a certification
C4_Witness ==
    /\ Parsed
    /\ ~isCertification
    /\ Truthy(Labeled.date_of_birth)
    /\ extracted.date_of_birth = Labeled.date_of_birth
    /\ \E d \in DateSet : DateKey(d) < DateKey(Labeled.date_of_birth)

\* C7: when no labeled rule found an issue or an expiry date and exactly one
\* date not assigned to another role remains, the fallback assigns it to
\* expiry_date if the certification flag is false and to issue_date if it is true.
C7_SingleRemainingDate ==
    [][(/\ pc = "fallbackIssueExpiry"
        /\ ~Truthy(result.issue_date) /\ ~Truthy(result.expiry_date)
        /\ Len(SelectSeq(dates, LAMBDA d : d # result.date_of_birth)) = 1)
       => LET d1 == SelectSeq(dates, LAMBDA d : d # result.date_of_birth)[1]
          IN  IF isCertification THEN result'.issue_date = d1
              ELSE result'.expiry_date = d1]_vars

\* C8: on a document that is not a certification, with no date label and at
\* least two distinct numeric dates, date_of_birth is the earliest date and is
\* assigned to neither issue_date nor expiry_date; with three or more dates
\* issue_date is the earliest and expiry_date the latest of the remaining ones.
C8_UnlabeledDates ==
    (Parsed /\ ~isCertification /\ NoDateLabel /\ Cardinality(DateSet) >= 2)
    => LET first == Earliest(DateSet)
           rest == DateSet \ {first}
       IN  /\ extracted.date_of_birth = first
           /\ extracted.issue_date # first
           /\ extracted.expiry_date # first
           /\ Cardinality(DateSet) >= 3
                => /\ extracted.issue_date = Earliest(rest)
                   /\ extracted.expiry_date = Latest(rest)

\* three distinct unlabeled dates were given the three roles
C8_Witness ==
    /\ Parsed /\ ~isCertification /\ NoDateLabel
    /\ Cardinality(DateSet) >= 3
    /\ Truthy(extracted.issue_date)
    /\ Truthy(extracted.expiry_date)
    /\ DateKey(extracted.date_of_birth) < DateKey(extracted.issue_date)
    /\ DateKey(extracted.issue_date) < DateKey(extracted.expiry_date)

\* a date-of-birth label is followed by a date, on the same or the next line
DobLabelPresent ==
    \/ Search(RE_dob, text).ok
    \/ \E n \in 1..Len(upperLines) : Search(RE_dobLine, upperLines[n]).ok

RECURSIVE FirstFound(_)
FirstFound(q) ==
    IF q = <<>> THEN NULL
    ELSE IF Head(q) # NULL THEN Head(q) ELSE FirstFound(Tail(q))

\* what each tier of the cascade finds in the text, in tier order
Tiers ==
    <<Capture1(RE_icNo, text),
      Capture1(RE_nricNo, text),
      Capture1(RE_idLabel, text),
      IF Search(RE_nameId, text).ok THEN Cap(text, Search(RE_nameId, text), 2) ELSE NULL,
      Capture1(RE_fin, text)>>

\* C5: fin_number is the match of the lowest-numbered tier that matches
\* (identity-card label, NRIC label, FIN / ID NO label, name with parenthesised
\* identifier, bare token); a later tier never replaces an earlier tier's match.
C5_IdentifierCascade ==
    /\ Parsed => extracted.fin_number = FirstFound(Tiers)
    /\ pc = "wpPatterns" => result.fin_number = FirstFound(Tiers)

\* two tiers matched different identifiers and the earlier tier's one was kept
C5_Witness ==
    /\ Parsed
    /\ Tiers[2] # NULL
    /\ Tiers[3] # NULL
    /\ Tiers[5] # NULL
    /\ Tiers[5] # Tiers[2]
    /\ Tiers[3] # Tiers[2]
    /\ extracted.fin_number = Tiers[2]

\* one letter of the allowed set, seven digits, one letter
IsFinShape(v) ==
    /\ Len(v) = 9
    /\ At(v, 1) \in {"S", "T", "F", "G", "M"}
    /\ IsDigits(SubSeq(v, 2, 8))
    /\ At(v, 9) \in AZ

\* C6: fin_number when non-null has the identifier shape and work_permit_no
\* when non-null is a non-empty string of digits only, so neither field ever
\* holds a token of the other kind.
C6_NoCrossOver ==
    pc \in ParsePcs \cup {"return", "done"}
    => /\ result.fin_number # NULL => IsFinShape(result.fin_number)
       /\ result.work_permit_no # NULL
            => /\ result.work_permit_no # ""
               /\ IsDigits(result.work_permit_no)

\* a space-separated permit number and an identifier were both extracted
C6_Witness ==
    /\ Parsed
    /\ extracted.work_permit_no = "034773262"
    /\ extracted.fin_number = "G3333333C"

(***************************************************************************)
(* The browser application: file list and runOCR                           *)
(***************************************************************************)
\* a missing array element, ocrFiles[i] past the end
UNDEFINED == "<undefined>"

\* handleOCRFiles: at most 4 files
MaxImages == 4

\* files the user can choose, each given by the text printed on it
FilePool ==
    {"", "FIN: G3333333C", "M6666666F\nEXP: 31/12/2030"}

MaxFiles == 2

\* the `extracted` member of the server's response to an OCR request for file
ServerExtracted(file, dt) ==
    IF trim(file) = "" THEN EmptyObject ELSE parseOCRText(file, dt)

\* fault: if (value) merged[key] = value, a later record overwrites
MergeIntoOverwrite(m, ext) ==
    LET taken == {key \in DOMAIN ext : Truthy(ext[key])}
    IN  [key \in (DOMAIN m) \cup taken |-> IF key \in taken THEN ext[key] ELSE m[key]]

\* for (const [key, value] of Object.entries(ext))
\*     if (value && !merged[key]) merged[key] = value;
MergeInto(m, ext) ==
    LET taken == {key \in DOMAIN ext :
                     Truthy(ext[key]) /\ ~(key \in DOMAIN m /\ Truthy(m[key]))}
    IN  [key \in (DOMAIN m) \cup taken |-> IF key \in taken THEN ext[key] ELSE m[key]]

ImageNo == <<"1", "2", "3", "4">>

\* handleOCRFiles for one chosen file.  The handlers of the page run to
\* completion: none starts while runOCR is between two awaits (runPc = "loop").
HandleOCRFiles(file) ==
    /\ runPc # "loop"
    /\ Len(ocrFiles) < MaxImages
    /\ Len(ocrFiles) < MaxFiles
    /\ ocrFiles' = Append(ocrFiles, file)
    /\ UNCHANGED <<ocrResult, runPc, docType, totalFiles, i, merged, allRawText,
                   pending, responses, sent, filesAtStart, parseVars, auxVars>>

\* click on the remove button of thumbnail n: ocrFiles.splice(n - 1, 1)
RemoveThumbnail(n) ==
    /\ runPc # "loop"
    /\ n \in 1..Len(ocrFiles)
    /\ ocrFiles' = SubSeq(ocrFiles, 1, n - 1) \o SubSeq(ocrFiles, n + 1, Len(ocrFiles))
    /\ UNCHANGED <<ocrResult, runPc, docType, totalFiles, i, merged, allRawText,
                   pending, responses, sent, filesAtStart, parseVars, auxVars>>

\* "Remove all" button, and entering the upload page
resetOCR ==
    /\ runPc # "loop"
    /\ ocrFiles' = <<>>
    /\ ocrResult' = NoOcrResult
    /\ runPc' = IF runPc = "await" THEN runPc ELSE "idle"
    /\ UNCHANGED <<docType, totalFiles, i, merged, allRawText, pending, responses,
                   sent, filesAtStart, parseVars, auxVars>>

\* runOCR up to the loop, started by the run button of step 1.  One run at a
\* time is modelled: merged, allRawText and i are locals of the run.
RunOCR(dt) ==
    /\ runPc \in {"idle", "failed"}
    /\ Len(ocrFiles) # 0
    /\ docType' = dt
    /\ totalFiles' = Len(ocrFiles)
    /\ merged' = <<>>
    /\ allRawText' = ""
    /\ i' = 0
    /\ responses' = <<>>
    /\ sent' = <<>>
    /\ filesAtStart' = ocrFiles
    /\ runPc' = "loop"
    /\ UNCHANGED <<ocrFiles, ocrResult, pending, parseVars, auxVars>>

\* ocrFiles[n] of the source (0-based n); undefined past the end of the array
FileAt(n) == IF n + 1 <= Len(ocrFiles) THEN ocrFiles[n + 1] ELSE UNDEFINED

\* the loop walking the files from the last index down
SendOCRBackwards ==
    /\ runPc = "loop"
    /\ i < totalFiles
    /\ pending' = FileAt(totalFiles - 1 - i)
    /\ sent' = Append(sent, [index |-> totalFiles - 1 - i,
                             file |-> FileAt(totalFiles - 1 - i)])
    /\ runPc' = "await"
    /\ UNCHANGED <<ocrFiles, ocrResult, docType, totalFiles, i, merged, allRawText,
                   responses, filesAtStart, parseVars, auxVars>>

\* loop body up to the await: API.processOCR(ocrFiles[i], docType)
SendOCR ==
    /\ runPc = "loop"
    /\ i < totalFiles
    /\ pending' = FileAt(i)
    /\ sent' = Append(sent, [index |-> i, file |-> FileAt(i)])
    /\ runPc' = "await"
    /\ UNCHANGED <<ocrFiles, ocrResult, docType, totalFiles, i, merged, allRawText,
                   responses, filesAtStart, parseVars, auxVars>>

\* the response arrives: accumulate the raw text, merge, next iteration
ReceiveOCR ==
    /\ runPc = "await"
    /\ pending # UNDEFINED
    /\ LET ext == ServerExtracted(pending, docType)
           raw == IF trim(pending) = "" THEN "(no text)" ELSE pending
       IN  /\ allRawText' = allRawText \o "-- Image " \o ImageNo[i + 1] \o " --\n"
                                \o raw \o "\n\n"
           /\ merged' = MergeInto(merged, ext)
           /\ responses' = Append(responses, ext)
    /\ i' = i + 1
    /\ pending' = NULL
    /\ runPc' = "loop"
    /\ UNCHANGED <<ocrFiles, ocrResult, docType, totalFiles, sent, filesAtStart, parseVars, auxVars>>

\* the request fails (no file in the form: 400; Vision API failure: 502):
\* API.processOCR throws and the catch block re-enables the run button
FailOCR ==
    /\ runPc = "await"
    /\ pending' = NULL
    /\ runPc' = "failed"
    /\ UNCHANGED <<ocrFiles, ocrResult, docType, totalFiles, i, merged, allRawText,
                   responses, sent, filesAtStart, parseVars, auxVars>>

\* after the loop: ocrResult = { extracted: merged, raw_text: allRawText }
FinishOCR ==
    /\ runPc = "loop"
    /\ i >= totalFiles
    /\ ocrResult' = [extracted |-> merged, raw_text |-> allRawText]
    /\ runPc' = "finished"
    /\ UNCHANGED <<ocrFiles, docType, totalFiles, i, merged, allRawText, pending,
                   responses, sent, filesAtStart, parseVars, auxVars>>

NextOCR ==
    \/ \E file \in FilePool : HandleOCRFiles(file)
    \/ \E n \in 1..MaxImages : RemoveThumbnail(n)
    \/ resetOCR
    \/ \E dt \in DocTypes : RunOCR(dt)
    \/ SendOCR
    \/ ReceiveOCR
    \/ FailOCR
    \/ FinishOCR

InitOCR ==
    /\ OcrIdle
    /\ ParseIdle
    /\ AuxIdle

SpecOCR == InitOCR /\ [][NextOCR]_vars

(***************************************************************************)
(* Properties of the Merge Reconciler and of the response record           *)
(***************************************************************************)
FieldNames == DOMAIN EmptyResult

\* the indices of the responses merged so far whose field key is non-empty
NonEmptyAt(key) ==
    {n \in 1..Len(responses) : key \in DOMAIN responses[n] /\ Truthy(responses[n][key])}

Min(S) == CHOOSE n \in S : \A o \in S : n <= o

\* m is the first-non-empty merge of the responses, in the order they were merged
IsFirstNonEmptyMerge(m) ==
    \A key \in FieldNames :
        IF NonEmptyAt(key) = {} THEN key \notin DOMAIN m
        ELSE key \in DOMAIN m /\ m[key] = responses[Min(NonEmptyAt(key))][key]

\* C1: for every field the merged value is the value of the first record, in
\* the order the records were merged, whose value for the field is non-empty;
\* a later record never replaces a value already taken.
C1_MergeFirstNonEmpty ==
    /\ runPc \in {"loop", "await"} => IsFirstNonEmptyMerge(merged)
    /\ runPc = "finished"
         => /\ Len(responses) = totalFiles
            /\ IsFirstNonEmptyMerge(ocrResult.extracted)

\* two records with different non-empty identifiers were merged and the first
\* one's identifier was kept, while a field empty in the first came from the second
C1_Witness ==
    /\ runPc = "finished"
    /\ Len(responses) = 2
    /\ responses[1] # EmptyObject /\ responses[2] # EmptyObject
    /\ Truthy(responses[1].fin_number) /\ Truthy(responses[2].fin_number)
    /\ responses[1].fin_number # responses[2].fin_number
    /\ ocrResult.extracted.fin_number = responses[1].fin_number
    /\ ~Truthy(responses[1].expiry_date)
    /\ "expiry_date" \in DOMAIN ocrResult.extracted
    /\ ocrResult.extracted.expiry_date = responses[2].expiry_date

\* C2: the record produced for one image contains all sixteen field keys and
\* each field is null or a non-empty string without leading or trailing
\* whitespace, also when no text was detected.
C2_RecordShape ==
    pc = "done"
    => /\ DOMAIN extracted = FieldNames
       /\ \A key \in FieldNames :
             extracted[key] = NULL
             \/ (extracted[key] # "" /\ trim(extracted[key]) = extracted[key])

(***************************************************************************)
(* Properties of the work permit layout and of the worker name             *)
(***************************************************************************)
\* digits and spaces, starting with a digit and holding at least one space
IsSpacedDigitRun(s) ==
    /\ Search(<<Bol, C(Digit, 1, 1), C(Digit \cup {" "}, 1, Inf), Eol>>, s).ok
    /\ includes(s, " ")

\* letters and spaces only, at least two words
IsPlainName(s) ==
    /\ Search(<<Bol, C(AZ, 1, 1), C(AZ \cup {" "}, 2, Inf), Eol>>, s).ok
    /\ includes(s, " ")

\* the index of the first line equal to label, 0 when there is none
FirstLine(label) ==
    IF \E n \in 1..Len(upperLines) : upperLines[n] = label
    THEN CHOOSE n \in 1..Len(upperLines) :
            /\ upperLines[n] = label
            /\ \A o \in 1..(n - 1) : upperLines[o] # label
    ELSE 0

\* the layout of the claim: WORK PERMIT NO with a spaced digit run on the next
\* line, a bare NAME label with a name on the next line, and a FIN label that
\* carries an identifier while no identity-card or NRIC label does
PermitLayout ==
    LET p == FirstLine("WORK PERMIT NO")
        n == FirstLine("NAME")
    IN  /\ p > 0 /\ p < Len(upperLines) /\ IsSpacedDigitRun(upperLines[p + 1])
        /\ n > 0 /\ n < Len(upperLines) /\ IsPlainName(upperLines[n + 1])
        /\ Capture1(RE_icNo, text) = NULL
        /\ Capture1(RE_nricNo, text) = NULL
        /\ Capture1(RE_idLabel, text) # NULL

\* C11: when a WORK PERMIT NO label line is followed on the next line by a
\* space-separated digit run, a FIN label carries an identifier and a bare NAME
\* label is followed by a name, work_permit_no is the digit run without its
\* whitespace, fin_number the identifier after the FIN label and worker_name
\* the line after the NAME label.
C11_PermitBesideIdentifier ==
    (Parsed /\ PermitLayout)
    => /\ extracted.work_permit_no = stripWS(upperLines[FirstLine("WORK PERMIT NO") + 1])
       /\ extracted.fin_number = Capture1(RE_idLabel, text)
       /\ extracted.worker_name = upperLines[FirstLine("NAME") + 1]

\* C12: for raw text that is empty or is not a string the extraction raises no
\* exception and returns a record in which every field is empty.
C12_MalformedInput ==
    (pc \in {"done", "TypeError"} /\ (rawText = NotAString \/ trim(rawText) = ""))
    => /\ pc = "done"
       /\ \A key \in FieldNames : key \notin DOMAIN extracted \/ ~Truthy(extracted[key])

(***************************************************************************)
(* The date helpers called with one calendar date written in every form    *)
(***************************************************************************)
Days == 1..31

MonthNumbers == 1..12

Years == {"1988", "2031"}

MonthNames ==
    <<"January", "February", "March", "April", "May", "June", "July", "August",
      "September", "October", "November", "December">>

LowerChar(c) == IF c \in AZ THEN CHOOSE a \in az : UpperOf[a] = c ELSE c

RECURSIVE toLowerCase(_)
toLowerCase(s) ==
    IF Len(s) = 0 THEN ""
    ELSE IF Len(s) = 1 THEN LowerChar(s)
    ELSE LET h == Len(s) \div 2
         IN  toLowerCase(SubSeq(s, 1, h)) \o toLowerCase(SubSeq(s, h + 1, Len(s)))

\* a day or month number with two digits
TwoDigits(n) == IF n < 10 THEN "0" \o ToString(n) ELSE ToString(n)

\* a day or month number as it is written: with or without the leading zero
Written(n) == {ToString(n), TwoDigits(n)}

\* the full English name and the 3-letter abbreviation, in three letter cases
MonthWritten(m) ==
    LET full == MonthNames[m]
        abbr == SubSeq(full, 1, 3)
    IN  {full, abbr, toUpperCase(full), toUpperCase(abbr), toLowerCase(full),
         toLowerCase(abbr)}

NumericForms(date) ==
    {dd \o sep \o mm \o sep \o date.year :
        dd \in Written(date.day), mm \in Written(date.month), sep \in {"/", "-", "."}}

TextForms(date) ==
    {dd \o sep \o mm \o sep \o date.year :
        dd \in Written(date.day), mm \in MonthWritten(date.month), sep \in {" ", "-"}}

CallFormatDate ==
    /\ dateStr = ""
    /\ \E s \in NumericForms(dmy) :
          /\ dateStr' = s
          /\ normalized' = formatDate(s)
    /\ UNCHANGED <<dmy, returned, dbVars, parseVars, ocrVars>>

CallParseTextMonthDate ==
    /\ dateStr = ""
    /\ \E s \in TextForms(dmy) :
          /\ dateStr' = s
          /\ normalized' = parseTextMonthDate(s)
    /\ UNCHANGED <<dmy, returned, dbVars, parseVars, ocrVars>>

NextDates == CallFormatDate \/ CallParseTextMonthDate

InitDates ==
    /\ ParseIdle
    /\ OcrIdle
    /\ dmy \in [day : Days, month : MonthNumbers, year : Years]
    /\ dateStr = ""
    /\ normalized = NULL
    /\ returned = <<>>
    /\ DbIdle

SpecDates == InitDates /\ [][NextDates]_vars

\* YYYY-MM-DD with zero-padded month and day
Canonical(date) == date.year \o "-" \o TwoDigits(date.month) \o "-" \o TwoDigits(date.day)

\* C13: every numeric form handed to formatDate and every text form handed to
\* parseTextMonthDate of one calendar date normalises to the same canonical
\* YYYY-MM-DD string of that date.
C13_DateNormalizationAgreement ==
    dateStr # "" => normalized = Canonical(dmy)

C13_Witness ==
    /\ dateStr = "5-sep-2031"
    /\ normalized = "2031-09-05"

(***************************************************************************)
(* Properties of the worker name                                           *)
(***************************************************************************)
\* positions of s where a whitespace-separated token starts
TokenStarts(s) ==
    {k \in 1..Len(s) : At(s, k) \notin WS /\ (k = 1 \/ At(s, k - 1) \in WS)}

\* letters, spaces, apostrophes, hyphens, slashes and periods
NameAlphabet == AZ \cup az \cup {" ", "'", "-", "/", "."}

LooksLikeName(s) ==
    /\ \A k \in 1..Len(s) : At(s, k) \in NameAlphabet
    /\ \/ Cardinality(TokenStarts(s)) >= 2
       \/ /\ Cardinality(TokenStarts(s)) = 1
          /\ Cardinality({k \in 1..Len(s) : At(s, k) \notin WS}) >= 5

\* C14: whichever strategy produced it, a non-null worker_name has at least two
\* whitespace-separated tokens or is one token of five or more characters, and
\* holds only letters, spaces, apostrophes, hyphens, slashes and periods.
C14_NameValidity ==
    /\ result.worker_name # NULL => LooksLikeName(result.worker_name)
    /\ (Parsed /\ extracted.worker_name # NULL) => LooksLikeName(extracted.worker_name)

C14_Witness ==
    /\ Parsed
    /\ rawText = "NAME:  O'BRIEN   J."
    /\ extracted.worker_name = "O'BRIEN J."

(***************************************************************************)
(* Properties of the document type flags                                   *)
(***************************************************************************)
\* the flags of the request have been computed
FlagsSet == pc \in ParsePcs \/ pc = "return" \/ Parsed

Occurs(keywords) == \E w \in keywords : includes(text, w)

\* C15: the hint work_permit forces the work-permit flag and the hint
\* certification forces the certification flag; a hint changes no other flag:
\* every other flag is true exactly when one of its own keywords occurs.
C15_HintFrame ==
    FlagsSet
    => /\ documentType = "work_permit" => isWorkPermit
       /\ documentType = "certification" => isCertification
       /\ documentType # "work_permit"
             => (isWorkPermit <=> Occurs({"WORK PERMIT", "EMPLOYMENT OF FOREIGN MANPOWER"}))
       /\ documentType # "certification" => (isCertification <=> Occurs(CertKeywords))
       /\ isIdentityCard <=> Occurs({"IDENTITY CARD", "REPUBLIC OF SINGAPORE", "NRIC NO"})

(***************************************************************************)
(* Properties of the line normaliser                                       *)
(***************************************************************************)
\* C16: lines and upperLines have the same length, hold no blank line and no
\* line with blanks around it, and upperLines[k] is lines[k] in upper case.
C16_LineAlignment ==
    FlagsSet
    => /\ Len(lines) = Len(upperLines)
       /\ \A k \in 1..Len(lines) :
             /\ lines[k] # ""
             /\ At(lines[k], 1) \notin WS
             /\ At(lines[k], Len(lines[k])) \notin WS
             /\ upperLines[k] = toUpperCase(lines[k])
       /\ \A k \in 1..Len(upperLines) :
             /\ upperLines[k] # ""
             /\ At(upperLines[k], 1) \notin WS
             /\ At(upperLines[k], Len(upperLines[k])) \notin WS

C16_Witness ==
    /\ Parsed
    /\ rawText = " \t\n  Name: Raj Kumar "
    /\ lines = <<"Name: Raj Kumar">>
    /\ upperLines = <<"NAME: RAJ KUMAR">>

(***************************************************************************)
(* Properties of the order of the requests of one run                      *)
(***************************************************************************)
\* C17: the request for the next file is issued only after the result of the
\* file before it has been merged, the requests go out in file-index order,
\* and the merged record is the first-non-empty merge of the per-file results
\* in that order, however long each response takes.
C17_MergeOrder ==
    /\ runPc = "await" => (Len(sent) = i + 1 /\ Len(responses) = i)
    /\ runPc \in {"loop", "finished"} => (Len(sent) = i /\ Len(responses) = i)
    /\ runPc \in {"loop", "await", "finished"}
         => /\ \A k \in 1..Len(sent) : sent[k].index = k - 1
            /\ \A k \in 1..Len(responses) :
                  responses[k] = ServerExtracted(sent[k].file, docType)
            /\ IsFirstNonEmptyMerge(merged)
    /\ runPc = "finished"
         => /\ Len(sent) = totalFiles
            /\ ocrResult.extracted = merged

C17_Witness ==
    /\ runPc = "finished"
    /\ sent = <<[index |-> 0, file |-> "FIN: G3333333C"],
                [index |-> 1, file |-> "M6666666F\nEXP: 31/12/2030"]>>
    /\ ocrResult.extracted.fin_number = "G3333333C"
    /\ ocrResult.extracted.expiry_date = "2030-12-31"

(***************************************************************************)
(* Properties of repeated invocations                                      *)
(***************************************************************************)
\* C18: however often a text is sent, with whichever hint and with whichever
\* other texts in between, every run returns the same fin_number for it.
C18_SameIdentifierEachRun ==
    \A t \in DOMAIN returned : Cardinality(returned[t].fins) <= 1

C18_Witness ==
    /\ Parsed
    /\ \A t \in RepeatPool : returned[t].runs >= 2
    /\ returned["FIN G1234567A\nS7654321B"].fins = {"G1234567A"}
    /\ returned["VERNON TAN (S5555555E)"].fins = {"S5555555E"}
    /\ returned["NAME: JOHN TAN"].fins = {NULL}

MaxClients == 2

Clients == 1..MaxClients

\* fin_number members of request bodies: one identifier in two spellings,
\* another identifier, and a body without the member
FinInputs == {"G1234567A", " g1234567a", "M7654321K", ""}

NameInputs == {"Ali", "Abu"}

\* the optional members of request bodies, two of the nine: nationality stands
\* for the seven bound as x ? x.toUpperCase().trim() : null, date_of_birth for
\* the two bound as x || null
BodyInputs ==
    {[nationality |-> " thai", date_of_birth |-> "1988-06-16"],
     [nationality |-> "", date_of_birth |-> NULL]}

\* the values bound to the optional parameters of the statements
Bound(body) ==
    [nationality |-> IF Truthy(body.nationality)
                     THEN trim(toUpperCase(body.nationality)) ELSE NULL,
     date_of_birth |-> IF Truthy(body.date_of_birth) THEN body.date_of_birth ELSE NULL]

\* COALESCE(?, column)
COALESCE(value, column) == IF value # NULL THEN value ELSE column

NoRequest == [pc |-> "none"]

\* the row of table workers whose fin_number is fin (compared as SQLite's
\* default BINARY collation does), as a set of row ids
RowsWithFin(fin) == {n \in 1..Len(workers) : workers[n].fin_number = fin}

\* const body = await request.json(); validation; cleanFin, cleanName
UpsertReceive(c, fin_number, worker_name, body) ==
    /\ requests[c].pc = "none"
    /\ requests' =
          [requests EXCEPT ![c] =
              IF ~Truthy(fin_number) \/ ~Truthy(worker_name)
              THEN [pc |-> "done", status |-> 400]
              ELSE [pc |-> "select", body |-> body,
                    cleanFin |-> trim(toUpperCase(fin_number)),
                    cleanName |-> trim(toUpperCase(worker_name))]]
    /\ UNCHANGED <<workers, childVars, dateVars, returned, parseVars, ocrVars>>

\* SELECT id FROM workers WHERE fin_number = ?
UpsertSelect(c) ==
    /\ requests[c].pc = "select"
    /\ LET found == RowsWithFin(requests[c].cleanFin) IN
       requests' =
          [requests EXCEPT ![c] =
              [pc |-> IF found = {} THEN "insert" ELSE "update",
               existing |-> IF found = {} THEN 0 ELSE CHOOSE n \in found : TRUE,
               body |-> @.body, cleanFin |-> @.cleanFin, cleanName |-> @.cleanName]]
    /\ UNCHANGED <<workers, childVars, dateVars, returned, parseVars, ocrVars>>

\* the UPDATE binding the optional parameters without COALESCE
UpsertUpdateOverwrite(c) ==
    /\ requests[c].pc = "update"
    /\ workers' =
          [n \in 1..Len(workers) |->
              IF workers[n].fin_number = requests[c].cleanFin
              THEN [workers[n] EXCEPT
                      !.worker_name = requests[c].cleanName,
                      !.nationality = Bound(requests[c].body).nationality,
                      !.date_of_birth = Bound(requests[c].body).date_of_birth]
              ELSE workers[n]]
    /\ requests' =
          [requests EXCEPT ![c] =
              [pc |-> "fetch", workerId |-> @.existing, isNew |-> FALSE,
               body |-> @.body, cleanFin |-> @.cleanFin, cleanName |-> @.cleanName]]
    /\ UNCHANGED <<childVars, dateVars, returned, parseVars, ocrVars>>

\* UPDATE workers SET worker_name = ?, ... WHERE fin_number = ?
UpsertUpdate(c) ==
    /\ requests[c].pc = "update"
    /\ workers' =
          [n \in 1..Len(workers) |->
              IF workers[n].fin_number = requests[c].cleanFin
              THEN [workers[n] EXCEPT
                      !.worker_name = requests[c].cleanName,
                      !.nationality = COALESCE(Bound(requests[c].body).nationality, @),
                      !.date_of_birth = COALESCE(Bound(requests[c].body).date_of_birth, @)]
              ELSE workers[n]]
    /\ requests' =
          [requests EXCEPT ![c] =
              [pc |-> "fetch", workerId |-> @.existing, isNew |-> FALSE,
               body |-> @.body, cleanFin |-> @.cleanFin, cleanName |-> @.cleanName]]
    /\ UNCHANGED <<childVars, dateVars, returned, parseVars, ocrVars>>

\* INSERT INTO workers (fin_number, worker_name, ...): a row with the same
\* fin_number makes the UNIQUE constraint fail; the statement throws and the
\* entry point answers 500
UpsertInsert(c) ==
    /\ requests[c].pc = "insert"
    /\ IF RowsWithFin(requests[c].cleanFin) # {}
       THEN /\ workers' = workers
            /\ requests' =
                  [requests EXCEPT ![c] =
                      [pc |-> "done", status |-> 500, body |-> @.body,
                       cleanFin |-> @.cleanFin, cleanName |-> @.cleanName]]
       ELSE /\ workers' =
                  Append(workers, [id |-> Len(workers) + 1,
                                   fin_number |-> requests[c].cleanFin,
                                   worker_name |-> requests[c].cleanName,
                                   nationality |-> Bound(requests[c].body).nationality,
                                   date_of_birth |->
                                       Bound(requests[c].body).date_of_birth])
            /\ requests' =
                  [requests EXCEPT ![c] =
                      [pc |-> "fetch", workerId |-> Len(workers) + 1, isNew |-> TRUE,
                       body |-> @.body, cleanFin |-> @.cleanFin, cleanName |-> @.cleanName]]
    /\ UNCHANGED <<childVars, dateVars, returned, parseVars, ocrVars>>

\* SELECT * FROM workers WHERE id = ?; the sheet sync; 201 or 200 with the row
UpsertRespond(c) ==
    /\ requests[c].pc = "fetch"
    /\ requests' =
          [requests EXCEPT ![c] =
              [pc |-> "done", status |-> IF @.isNew THEN 201 ELSE 200,
               worker |-> workers[@.workerId],
               body |-> @.body, cleanFin |-> @.cleanFin, cleanName |-> @.cleanName]]
    /\ UNCHANGED <<workers, childVars, dateVars, returned, parseVars, ocrVars>>

NextUpsert ==
    \E c \in Clients :
        \/ \E fin_number \in FinInputs, worker_name \in NameInputs, body \in BodyInputs :
              UpsertReceive(c, fin_number, worker_name, body)
        \/ UpsertSelect(c)
        \/ UpsertUpdate(c)
        \/ UpsertInsert(c)
        \/ UpsertRespond(c)

InitUpsert ==
    /\ ParseIdle
    /\ OcrIdle
    /\ DateIdle
    /\ returned = <<>>
    /\ workers = <<>>
    /\ requests = [c \in Clients |-> NoRequest]
    /\ certifications = <<>>
    /\ documents = <<>>

SpecUpsert == InitUpsert /\ [][NextUpsert]_vars

\* C20: there is at most one worker row per FIN, compared without regard to
\* case and surrounding blanks, and every request with a FIN and a name either
\* updates the row of its FIN (200) or creates the one row of its FIN (201).
C20_UpsertByFin ==
    /\ \A n, o \in 1..Len(workers) :
          trim(toUpperCase(workers[n].fin_number))
                = trim(toUpperCase(workers[o].fin_number)) => n = o
    /\ \A c \in DOMAIN requests :
          (requests[c].pc = "done" /\ requests[c].status # 400)
              => /\ requests[c].status \in {200, 201}
                 /\ requests[c].worker.fin_number = requests[c].cleanFin

(***************************************************************************)
(* Properties of the order of the name strategies                          *)
(***************************************************************************)
\* C22: worker_name is written at most once per extraction: once a strategy,
\* or the identifier tier that reads a name beside a bracketed identifier, has
\* set it, no strategy that runs afterwards changes it.
C22_NameFirstSuccessWins ==
    [][(pc \in ParsePcs /\ Truthy(result.worker_name))
          => result'.worker_name = result.worker_name]_vars

(***************************************************************************)
(* Properties of the expiry label                                          *)
(***************************************************************************)
\* EXPIRY, EXPIRY DATE, VALID UNTIL, VALID TILL or VALID TO, an optional
\* colon or hyphen, and a numeric date
RE_expiryLabelled ==
    <<Alt(<< <<L("EXPIRY"), S0, L("DATE")>>,
             <<L("EXPIRY")>>,
             <<L("VALID"), S1, Alt(<< <<L("UNTIL")>>, <<L("TILL")>>, <<L("TO")>> >>)>> >>)>>
    \o ColonDash \o RE_date3

\* C23: a numeric date that directly follows an expiry label is assigned to
\* expiry_date and to no other role; in particular it does not become the
\* date of birth of a document that is not a certification.
C23_ExpiryLabelRouting ==
    LET m == Search(RE_expiryLabelled, text)
    IN  (Parsed /\ m.ok)
        => /\ IsIso(extracted.expiry_date)
           /\ DateKey(extracted.expiry_date) = TokenKey(text, m)
           /\ \A f \in {"date_of_birth", "issue_date"} :
                 IsIso(extracted[f]) => DateKey(extracted[f]) # TokenKey(text, m)

(***************************************************************************)
(* Properties of the candidate list of the positional fallback             *)
(***************************************************************************)
\* a numeric date, or a day, a month name and a year
RE_dateLike ==
    <<Alt(<<NumDateB,
            <<C(Digit, 1, 2), C(WS \cup {"-", ","}, 1, Inf), C(AZ, 1, Inf),
              C(WS \cup {"-", ","}, 1, Inf), C(Digit, 4, 4)>> >>)>>

\* the canonical form of a date-like token, NULL when its month is no month
CanonicalOf(token) ==
    IF formatDate(token) # NULL THEN formatDate(token) ELSE parseTextMonthDate(token)

\* the date-like substrings of s from position n on, in document order
RECURSIVE DateLikeFrom(_, _)
DateLikeFrom(s, n) ==
    LET m == SearchFrom(RE_dateLike, s, n)
    IN  IF ~m.ok THEN <<>>
        ELSE (IF CanonicalOf(Whole(s, m)) = NULL THEN <<>>
              ELSE <<CanonicalOf(Whole(s, m))>>) \o DateLikeFrom(s, m.e)

\* C24: the list of dates the positional fallback works on holds every
\* date-like substring of the text, numeric and text-month, in document order.
C24_FallbackCandidates ==
    (pc \in {"fallbackDob", "fallbackIssueExpiry", "return"} \/ Parsed)
    => dates = DateLikeFrom(text, 1)

(***************************************************************************)
(* Properties of the issue date                                            *)
(***************************************************************************)
\* a COURSE DATE label gave the issue date
CourseLabelMatched ==
    CourseDateText(upperLines, CourseDate(text, EmptyResult)).issue_date # NULL

\* what each source of an issue date yields on the text, in the order of the
\* cascade: numeric label (the identity-card DATE OF ISSUE first), text-month
\* label, the end of a date range, the conducted-on narrative
IssueSources ==
    <<IF isIdentityCard /\ Search(RE_dateOfIssue, text).ok
      THEN formatDate(Cap(text, Search(RE_dateOfIssue, text), 1)) ELSE NULL,
      IF Search(RE_issue, text).ok
      THEN formatDate(Cap(text, Search(RE_issue, text), 1)) ELSE NULL,
      IF Search(RE_issueTm, text).ok
      THEN parseTextMonthDate(Cap(text, Search(RE_issueTm, text), 1)) ELSE NULL,
      IF Search(RE_range, text).ok
      THEN parseTextMonthDate(Cap(text, Search(RE_range, text), 2)) ELSE NULL,
      IF Search(RE_conducted, text).ok
      THEN parseTextMonthDate(Cap(text, Search(RE_conducted, text), 1) \o " "
                              \o Cap(text, Search(RE_conducted, text), 2))
      ELSE NULL>>

\* C26: when no course-date label matched, issue_date is what the first source
\* that yields a date yields, in the order numeric issue-date label, text-month
\* issue-date label, date range, conducted-on narrative; a date range yields
\* its end date.
C26_IssueDateCascade ==
    (Parsed /\ ~CourseLabelMatched /\ FirstFound(IssueSources) # NULL)
    => extracted.issue_date = FirstFound(IssueSources)

\* a date range and a narrative, no label: the end of the range is the issue date
C26_Witness ==
    /\ Parsed
    /\ rawText = "CONDUCTED ON THE 14TH MARCH 2011\n16 JAN 2017 TO 21 FEB 2017"
    /\ IssueSources = <<NULL, NULL, NULL, "2017-02-21", "2011-03-14">>
    /\ extracted.issue_date = "2017-02-21"

(***************************************************************************)
(* formatDate and the separator between the numbers                         *)
(***************************************************************************)
\* the separators a caller may find between the numbers of a date
AnySeparator == {"/", "-", ".", "\\", ":", " "}

\* formatDate(dateStr) on day, month and year joined by any two separators
CallFormatDateSeparated ==
    /\ dateStr = ""
    /\ \E dd \in Written(dmy.day), mm \in Written(dmy.month), s1, s2 \in AnySeparator :
          /\ dateStr' = dd \o s1 \o mm \o s2 \o dmy.year
          /\ normalized' = formatDate(dd \o s1 \o mm \o s2 \o dmy.year)
    /\ UNCHANGED <<dmy, returned, dbVars, parseVars, ocrVars>>

NextSeparated == CallFormatDateSeparated

InitSeparated ==
    /\ ParseIdle
    /\ OcrIdle
    /\ dmy \in [day : {5, 16}, month : {2, 11}, year : Years]
    /\ dateStr = ""
    /\ normalized = NULL
    /\ returned = <<>>
    /\ DbIdle

SpecSeparated == InitSeparated /\ [][NextSeparated]_vars

\* the characters of s that are not digits
NonDigits(s) == {At(s, p) : p \in 1..Len(s)} \ Digit

\* C27: formatDate returns the canonical zero-padded YYYY-MM-DD of the date exactly
\* when both separators are drawn from '/', '-', '.'; with any other separator
\* character (a backslash, for example) it returns null.
C27_SeparatorSet ==
    dateStr # ""
    => IF NonDigits(dateStr) \subseteq {"/", "-", "."}
       THEN normalized = Canonical(dmy)
       ELSE normalized = NULL

(***************************************************************************)
(* The form of the date fields                                             *)
(***************************************************************************)
\* C28: in every output date_of_birth and issue_date are null or of the form
\* YYYY-MM-DD, and expiry_date is null, of that form or the literal 'No Expiry';
\* no rule stores a date token as it stands in the text.
C28_DateFieldForm ==
    Parsed
    => /\ \A f \in {"date_of_birth", "issue_date"} :
             extracted[f] = NULL \/ IsIso(extracted[f])
       /\ \/ extracted.expiry_date = NULL
          \/ IsIso(extracted.expiry_date)
          \/ extracted.expiry_date = "No Expiry"

\* a labeled expiry date and a labeled date of birth, both normalised
C28_Witness ==
    /\ Parsed
    /\ rawText = "DOB: 16-06-1988\nVALID TO: 31/12/2030"
    /\ extracted.date_of_birth = "1988-06-16"
    /\ extracted.expiry_date = "2030-12-31"

(***************************************************************************)
(* The file list while a run is waiting for a response                     *)
(***************************************************************************)
\* C29: removing a thumbnail while runOCR awaits a response does not change what
\* is processed: the requests of the run carry the files that were in ocrFiles
\* when the run started, each once and in their original order, and no request
\* carries a missing (undefined) entry.
C29_FileListStability ==
    runPc \in {"loop", "await", "finished", "failed"}
    => /\ \A k \in 1..Len(sent) : sent[k].file # UNDEFINED
       /\ \A k \in 1..Len(sent) :
             k <= Len(filesAtStart) /\ sent[k].file = filesAtStart[k]
       /\ runPc = "finished" => Len(sent) = Len(filesAtStart)

(***************************************************************************)
(* What an update of an existing worker leaves alone                       *)
(***************************************************************************)
OptionalFields == {"nationality", "date_of_birth"}

\* C30: when upsertWorker updates an existing worker, every optional field
\* supplied as null or empty keeps its stored value, worker_name is overwritten
\* with the name of the request, and id and fin_number of the row do not change;
\* the other rows are left as they are.
C30_UpsertFrame ==
    [][\A c \in Clients :
          (requests[c].pc = "update" /\ requests'[c].pc = "fetch")
          => /\ Len(workers') = Len(workers)
             /\ \A n \in 1..Len(workers) :
                   IF workers[n].fin_number = requests[c].cleanFin
                   THEN /\ workers'[n].id = workers[n].id
                        /\ workers'[n].fin_number = workers[n].fin_number
                        /\ workers'[n].worker_name = requests[c].cleanName
                        /\ \A f \in OptionalFields :
                              ~Truthy(requests[c].body[f])
                                  => workers'[n][f] = workers[n][f]
                   ELSE workers'[n] = workers[n]]_vars

\* an update with an empty nationality and no date of birth has left the stored ones
C30_Witness ==
    \E c \in Clients :
        /\ requests[c].pc = "fetch"
        /\ ~requests[c].isNew
        /\ requests[c].body = [nationality |-> "", date_of_birth |-> NULL]
        /\ workers[requests[c].workerId].nationality = "THAI"
        /\ workers[requests[c].workerId].date_of_birth = "1988-06-16"

(***************************************************************************)
(* deleteWorker beside createCertification and uploadWorkerDocument        *)
(***************************************************************************)
\* the worker every request of this part is about, as upsertWorker stored it
SeedWorker ==
    [id |-> 1, fin_number |-> "G1234567A", worker_name |-> "ALI",
     nationality |-> NULL, date_of_birth |-> NULL]

\* ids in DELETE /api/workers/:id : the worker's and one that no row has
DeleteIds == {1, 2}

\* bodies of createCertification: the worker by id, by FIN, and no course title.
\* A worker id that is null is written 0 in this part: no row has that id.
CertInputs ==
    {[worker_id |-> 1, fin_number |-> NULL, course_title |-> "WAH"],
     [worker_id |-> 0, fin_number |-> "g1234567a", course_title |-> "WAH"],
     [worker_id |-> 1, fin_number |-> NULL, course_title |-> ""]}

\* fin_number members of the upload form
UploadFins == {"g1234567a", NULL}

WorkerIds == {workers[n].id : n \in 1..Len(workers)}

\* SELECT id FROM workers WHERE fin_number = ? : the id, or 0 for no row
IdOfFin(fin) ==
    IF RowsWithFin(fin) = {} THEN 0
    ELSE workers[CHOOSE n \in RowsWithFin(fin) : TRUE].id

\* DELETE FROM table WHERE worker_id = ?
WithoutWorker(rows, id) == SelectSeq(rows, LAMBDA row : row.worker_id # id)

\* FOREIGN KEY (worker_id) REFERENCES workers(id): a row may be inserted when
\* its worker_id is null or the id of a worker row
ForeignKeyHolds(worker_id) == worker_id = 0 \/ worker_id \in WorkerIds

\* documents after a worker row is deleted: ON DELETE SET NULL
SetNull(rows, id) ==
    [n \in 1..Len(rows) |->
        IF rows[n].worker_id = id THEN [rows[n] EXCEPT !.worker_id = 0] ELSE rows[n]]

Answer(c, status) == requests' = [requests EXCEPT ![c] = [@ EXCEPT !.pc = "done", !.status = status]]

Goto(c, next) == requests' = [requests EXCEPT ![c] = [@ EXCEPT !.pc = next]]

\* DELETE /api/workers/:id arrives
DeleteReceive(c, id) ==
    /\ requests[c].pc = "none"
    /\ requests' = [requests EXCEPT ![c] =
                      [pc |-> "delSelect", kind |-> "delete", id |-> id, status |-> 0]]
    /\ UNCHANGED <<workers, childVars, dateVars, returned, parseVars, ocrVars>>

\* SELECT * FROM workers WHERE id = ? ; 404 when there is no row
DeleteSelect(c) ==
    /\ requests[c].pc = "delSelect"
    /\ IF requests[c].id \in WorkerIds THEN Goto(c, "delFiles") ELSE Answer(c, 404)
    /\ UNCHANGED <<workers, childVars, dateVars, returned, parseVars, ocrVars>>

\* SELECT r2_key FROM documents WHERE worker_id = ? and the deletions in the bucket
DeleteFiles(c) ==
    /\ requests[c].pc = "delFiles"
    /\ Goto(c, "delDocuments")
    /\ UNCHANGED <<workers, childVars, dateVars, returned, parseVars, ocrVars>>

\* DELETE FROM documents WHERE worker_id = ?
DeleteDocuments(c) ==
    /\ requests[c].pc = "delDocuments"
    /\ documents' = WithoutWorker(documents, requests[c].id)
    /\ Goto(c, "delCertifications")
    /\ UNCHANGED <<workers, certifications, dateVars, returned, parseVars, ocrVars>>

\* DELETE FROM certifications WHERE worker_id = ?
DeleteCertifications(c) ==
    /\ requests[c].pc = "delCertifications"
    /\ certifications' = WithoutWorker(certifications, requests[c].id)
    /\ Goto(c, "delWorker")
    /\ UNCHANGED <<workers, documents, dateVars, returned, parseVars, ocrVars>>

\* the last statement on a database that does not act on the foreign keys
DeleteWorkerRowOnly(c) ==
    /\ requests[c].pc = "delWorker"
    /\ workers' = SelectSeq(workers, LAMBDA row : row.id # requests[c].id)
    /\ Answer(c, 200)
    /\ UNCHANGED <<childVars, dateVars, returned, parseVars, ocrVars>>

\* DELETE FROM workers WHERE id = ? with the actions of the foreign keys
\* (certifications: ON DELETE CASCADE, documents: ON DELETE SET NULL), then
\* the answer { success: true }
DeleteWorkerRow(c) ==
    /\ requests[c].pc = "delWorker"
    /\ workers' = SelectSeq(workers, LAMBDA row : row.id # requests[c].id)
    /\ certifications' = WithoutWorker(certifications, requests[c].id)
    /\ documents' = SetNull(documents, requests[c].id)
    /\ Answer(c, 200)
    /\ UNCHANGED <<dateVars, returned, parseVars, ocrVars>>

\* createCertification: the body, the check of course_title, worker_id or fin_number
CertReceive(c, body) ==
    /\ requests[c].pc = "none"
    /\ requests' = [requests EXCEPT ![c] =
          [kind |-> "certification", id |-> body.worker_id, fin_number |-> body.fin_number,
           status |-> IF ~Truthy(body.course_title) THEN 400
                      ELSE IF body.worker_id = 0 /\ ~Truthy(body.fin_number) THEN 400
                      ELSE 0,
           pc |-> IF ~Truthy(body.course_title) THEN "done"
                  ELSE IF body.worker_id # 0 THEN "certVerify"
                  ELSE IF Truthy(body.fin_number) THEN "certResolve" ELSE "done"]]
    /\ UNCHANGED <<workers, childVars, dateVars, returned, parseVars, ocrVars>>

\* SELECT id FROM workers WHERE fin_number = ? ; 400 when no worker is resolved
CertResolve(c) ==
    /\ requests[c].pc = "certResolve"
    /\ LET found == IdOfFin(trim(toUpperCase(requests[c].fin_number))) IN
       requests' = [requests EXCEPT ![c] =
          IF found = 0 THEN [@ EXCEPT !.pc = "done", !.status = 400]
          ELSE [@ EXCEPT !.pc = "certVerify", !.id = found]]
    /\ UNCHANGED <<workers, childVars, dateVars, returned, parseVars, ocrVars>>

\* SELECT id FROM workers WHERE id = ? ; 404 when there is no row
CertVerify(c) ==
    /\ requests[c].pc = "certVerify"
    /\ IF requests[c].id \in WorkerIds THEN Goto(c, "certInsert") ELSE Answer(c, 404)
    /\ UNCHANGED <<workers, childVars, dateVars, returned, parseVars, ocrVars>>

\* INSERT INTO certifications (worker_id, ...): the statement throws when the
\* foreign key fails and the entry point answers 500
CertInsert(c) ==
    /\ requests[c].pc = "certInsert"
    /\ IF ForeignKeyHolds(requests[c].id)
       THEN /\ certifications' = Append(certifications, [worker_id |-> requests[c].id])
            /\ Goto(c, "certFetch")
       ELSE /\ certifications' = certifications
            /\ Answer(c, 500)
    /\ UNCHANGED <<workers, documents, dateVars, returned, parseVars, ocrVars>>

\* SELECT * FROM certifications WHERE id = ? ; the sheet sync ; 201
CertRespond(c) ==
    /\ requests[c].pc = "certFetch"
    /\ Answer(c, 201)
    /\ UNCHANGED <<workers, childVars, dateVars, returned, parseVars, ocrVars>>

\* uploadWorkerDocument: the form with an allowed file
UploadReceive(c, finNumber) ==
    /\ requests[c].pc = "none"
    /\ requests' = [requests EXCEPT ![c] =
          [kind |-> "document", id |-> 0, fin_number |-> finNumber, status |-> 0,
           pc |-> IF Truthy(finNumber) THEN "docSelect" ELSE "docPut"]]
    /\ UNCHANGED <<workers, childVars, dateVars, returned, parseVars, ocrVars>>

\* SELECT id FROM workers WHERE fin_number = ? ; workerId stays null without a row
UploadSelect(c) ==
    /\ requests[c].pc = "docSelect"
    /\ requests' = [requests EXCEPT ![c] =
          [@ EXCEPT !.pc = "docPut",
                    !.id = IdOfFin(trim(toUpperCase(requests[c].fin_number)))]]
    /\ UNCHANGED <<workers, childVars, dateVars, returned, parseVars, ocrVars>>

\* await env.BUCKET.put(r2Key, ...)
UploadPut(c) ==
    /\ requests[c].pc = "docPut"
    /\ Goto(c, "docInsert")
    /\ UNCHANGED <<workers, childVars, dateVars, returned, parseVars, ocrVars>>

\* INSERT INTO documents (worker_id, ...) ; 201, or 500 when the foreign key fails
UploadInsert(c) ==
    /\ requests[c].pc = "docInsert"
    /\ IF ForeignKeyHolds(requests[c].id)
       THEN /\ documents' = Append(documents, [worker_id |-> requests[c].id])
            /\ Answer(c, 201)
       ELSE /\ documents' = documents
            /\ Answer(c, 500)
    /\ UNCHANGED <<workers, certifications, dateVars, returned, parseVars, ocrVars>>

NextDelete ==
    \E c \in Clients :
        \/ \E id \in DeleteIds : DeleteReceive(c, id)
        \/ DeleteSelect(c)
        \/ DeleteFiles(c)
        \/ DeleteDocuments(c)
        \/ DeleteCertifications(c)
        \/ DeleteWorkerRow(c)
        \/ \E body \in CertInputs : CertReceive(c, body)
        \/ CertResolve(c)
        \/ CertVerify(c)
        \/ CertInsert(c)
        \/ CertRespond(c)
        \/ \E finNumber \in UploadFins : UploadReceive(c, finNumber)
        \/ UploadSelect(c)
        \/ UploadPut(c)
        \/ UploadInsert(c)

\* one worker with one certification and one document
InitDelete ==
    /\ ParseIdle
    /\ OcrIdle
    /\ DateIdle
    /\ returned = <<>>
    /\ workers = <<SeedWorker>>
    /\ requests = [c \in Clients |-> NoRequest]
    /\ certifications = <<[worker_id |-> 1]>>
    /\ documents = <<[worker_id |-> 1]>>

SpecDelete == InitDelete /\ [][NextDelete]_vars

\* the ids of the workers whose deletion has been answered with success
Deleted ==
    {requests[c].id : c \in {d \in Clients : /\ requests[d].pc = "done"
                                             /\ requests[d].kind = "delete"
                                             /\ requests[d].status = 200}}

References(rows, id) == \E n \in 1..Len(rows) : rows[n].worker_id = id

\* C21: once deleteWorker(id) has answered with success, no certification row
\* and no document row references worker id, also when a createCertification
\* or an uploadWorkerDocument request for the same worker runs beside the delete.
C21_DeleteRemovesAssociated ==
    \A id \in Deleted : ~References(certifications, id) /\ ~References(documents, id)

\* the worker is deleted; an upload that had read its id before was refused by
\* the foreign key, and an earlier one survives with worker_id null
C21_Witness ==
    /\ 1 \in Deleted
    /\ \E c \in Clients :
          /\ requests[c].pc = "done"
          /\ requests[c].kind \in {"document", "certification"}
          /\ requests[c].id = 1
          /\ requests[c].status = 500

(***************************************************************************)
(* Properties of the vocabulary fallback                                   *)
(***************************************************************************)
WordsOf(words) == {words[n] : n \in 1..Len(words)}

\* the value the label scan for the race finds, NULL when it finds none
RaceLabel == RaceLoop(upperLines, EmptyResult, 1).race

\* C25: for nationality and for race, when the label scan finds nothing and a
\* word of the field's vocabulary occurs anywhere in the text, the field is set
\* to a word of the vocabulary whatever the document-type flags are; when the
\* label scan succeeds the field holds the labeled value.
C25_VocabularyFallback ==
    Parsed
    => /\ IF NationalityLabel(text) # NULL
          THEN extracted.nationality = NationalityLabel(text)
          ELSE FirstIncluded(knownNationalities, text) # NULL
                  => extracted.nationality \in WordsOf(knownNationalities)
       /\ IF RaceLabel # NULL
          THEN extracted.race = RaceLabel
          ELSE FirstIncluded(knownRaces, text) # NULL
                  => extracted.race \in WordsOf(knownRaces)

====
